---------------------------- MODULE Spec2Model ----------------------------
(***************************************************************************)
(* Verification model of probabilistic-collections-rs:                     *)
(*   - QuotientFilter (src/src/quotient.rs) over its BitstringVec slots,    *)
(*   - CuckooFilter (src/src/cuckoo/cuckoo_filter.rs) over BitArrayVec,     *)
(*   - BitVec (src/src/bit_vec.rs).                                         *)
(* Each structure has its own specification (SpecQF, SpecCF, SpecBV); the   *)
(* variables of the other structures stay at their initial value.          *)
(***************************************************************************)
EXTENDS Integers, Sequences, FiniteSets, TLC

VARIABLES qf, qf_items, qf_last, cf, cf_items, cf_last, bv, bv_last,
          sv, sv_last,
          hi,
          scf, scf_last,
          sbf, sbf_last,
          by,
          bf, bf_items, bf_last,
          dd, dd_last,
          cms, cms_sums, cms_last,
          hl, hl_last,
          qn

vars == <<qf, qf_items, qf_last, cf, cf_items, cf_last, bv, bv_last,
         sv, sv_last,
         hi,
         scf, scf_last,
         sbf, sbf_last,
         by,
         bf, bf_items, bf_last,
         dd, dd_last,
         cms, cms_sums, cms_last,
         hl, hl_last,
         qn>>

qf_vars == <<qf, qf_items, qf_last>>
cf_vars == <<cf, cf_items, cf_last>>
bv_vars == <<bv, bv_last>>
sv_vars == <<sv, sv_last>>
hi_vars == <<hi>>
scf_vars == <<scf, scf_last>>
sbf_vars == <<sbf, sbf_last>>
by_vars == <<by>>
bf_vars == <<bf, bf_items, bf_last>>
dd_vars == <<dd, dd_last>>
cms_vars == <<cms, cms_sums, cms_last>>
hl_vars == <<hl, hl_last>>
qn_vars == <<qn>>

(***************************************************************************)
(* Machine arithmetic on non-negative integers.                            *)
(***************************************************************************)
RECURSIVE Pow2(_)
Pow2(n) == IF n = 0 THEN 1 ELSE 2 * Pow2(n - 1)

RECURSIVE BitAnd(_, _)
BitAnd(a, b) ==
    IF a = 0 \/ b = 0 THEN 0
    ELSE (a % 2) * (b % 2) + 2 * BitAnd(a \div 2, b \div 2)

RECURSIVE BitOr(_, _)
BitOr(a, b) ==
    IF a = 0 THEN b
    ELSE IF b = 0 THEN a
    ELSE (IF a % 2 = 1 \/ b % 2 = 1 THEN 1 ELSE 0) + 2 * BitOr(a \div 2, b \div 2)

RECURSIVE BitXor(_, _)
BitXor(a, b) ==
    IF a = 0 THEN b
    ELSE IF b = 0 THEN a
    ELSE ((a + b) % 2) + 2 * BitXor(a \div 2, b \div 2)

\* x & !m
BitAndNot(x, m) == x - BitAnd(x, m)

Min(a, b) == IF a <= b THEN a ELSE b

(***************************************************************************)
(* QuotientFilter                                                          *)
(***************************************************************************)
\* Bounds of the quotient filter model.
QuotientBits == 2
MaxRemainderBits == 2
MaxHash == 5
MaxCalls == 7

Hashes == 0 .. MaxHash

SHIFTED_MASK == 1
CONTINUATION_MASK == 2
OCCUPIED_MASK == 4
METADATA_MASK == 7
METADATA_BITS == 3

\* BitstringVec seen slot by slot: `slots` holds the value of every slot, the
\* values written by the quotient filter are below 2^bit_count.
BitstringVec_new(bit_count, len) ==
    [bit_count |-> bit_count,
     len |-> len,
     occupied_len |-> 0,
     slots |-> [i \in 0 .. len - 1 |-> 0]]

BitstringVec_get(vec, index) == vec.slots[index]

BitstringVec_set(vec, index, bitstring) ==
    LET prev_is_zero == BitstringVec_get(vec, index) = 0
        curr_is_zero == bitstring = 0
    IN [vec EXCEPT
          !.slots[index] = bitstring,
          !.occupied_len =
              IF prev_is_zero # curr_is_zero
              THEN (IF curr_is_zero THEN @ - 1 ELSE @ + 1)
              ELSE @]

get_mask(size) == Pow2(size) - 1

QuotientFilter_with_hasher(quotient_bits, remainder_bits) ==
    LET slot_bits == remainder_bits + METADATA_BITS
        slot_vec_len == slot_bits * Pow2(quotient_bits)
    IN [quotient_bits |-> quotient_bits,
        remainder_bits |-> remainder_bits,
        quotient_mask |-> get_mask(quotient_bits),
        remainder_mask |-> get_mask(remainder_bits),
        slot_vec |-> BitstringVec_new(slot_bits, slot_vec_len),
        len |-> 0]

capacity(f) == Pow2(f.quotient_bits)

get_quotient_and_remainder(f, hash) ==
    [quotient |-> BitAnd(hash \div Pow2(f.remainder_bits), f.quotient_mask),
     remainder |-> BitAnd(hash, f.remainder_mask)]

increment_index(f, index) == IF index = capacity(f) - 1 THEN 0 ELSE index + 1

decrement_index(f, index) == IF index = 0 THEN capacity(f) - 1 ELSE index - 1

\* A read-only walk that has visited more slots than this repeats for ever.
WalkLimit(f) == capacity(f) * (capacity(f) + 2)

\* first loop of get_run_start: walk left to the start of the cluster
RECURSIVE find_cluster_start(_, _, _, _)
find_cluster_start(f, index, occupied_count, fuel) ==
    LET slot == BitstringVec_get(f.slot_vec, index)
        oc == IF BitAnd(slot, OCCUPIED_MASK) # 0
              THEN occupied_count + 1 ELSE occupied_count
    IN IF BitAnd(slot, SHIFTED_MASK) = 0
       THEN [index |-> index, occupied_count |-> oc, diverged |-> FALSE]
       ELSE IF fuel = 0
       THEN [index |-> index, occupied_count |-> oc, diverged |-> TRUE]
       ELSE find_cluster_start(f, decrement_index(f, index), oc, fuel - 1)

\* second loop of get_run_start: walk right to the start of the run
RECURSIVE find_run_start(_, _, _, _, _, _)
find_run_start(f, index, occupied_count, runs_count, total_occupied_count, fuel) ==
    LET slot == BitstringVec_get(f.slot_vec, index)
        toc == IF BitAnd(slot, OCCUPIED_MASK) # 0
               THEN total_occupied_count + 1 ELSE total_occupied_count
        rc == IF BitAnd(slot, CONTINUATION_MASK) = 0
              THEN runs_count + 1 ELSE runs_count
    IN IF occupied_count = rc
       THEN [index |-> index, runs_count |-> rc,
             total_occupied_count |-> toc, diverged |-> FALSE]
       ELSE IF fuel = 0
       THEN [index |-> index, runs_count |-> rc,
             total_occupied_count |-> toc, diverged |-> TRUE]
       ELSE find_run_start(f, increment_index(f, index), occupied_count, rc, toc,
                           fuel - 1)

\* returns (index of run start, # of runs from cluster start, # of occupied slots)
get_run_start(f, index) ==
    LET c == find_cluster_start(f, index, 0, WalkLimit(f))
    IN IF c.diverged
       THEN [index |-> c.index, runs_count |-> 0,
             total_occupied_count |-> 0, diverged |-> TRUE]
       ELSE find_run_start(f, c.index, c.occupied_count, 0, 0, WalkLimit(f))

\* Overflow checks of the build: on (debug) an integer underflow panics, off
\* (release) it wraps.  A wrapped usize is kept as its representative modulo
\* 2^64 of smallest magnitude, so 0 - 1 is kept as -1.
Builds == {"debug", "release"}

usize_lt(a, b) == IF a < 0 THEN (b < 0 /\ a < b) ELSE (b < 0 \/ a < b)

\* run scan of contains
RECURSIVE contains_scan(_, _, _, _)
contains_scan(f, index, remainder, fuel) ==
    LET slot == BitstringVec_get(f.slot_vec, index)
        slot_remainder == slot \div Pow2(METADATA_BITS)
    IN IF slot_remainder = remainder
       THEN [result |-> TRUE, diverged |-> FALSE]
       ELSE IF slot_remainder > remainder
       THEN [result |-> FALSE, diverged |-> FALSE]
       ELSE LET next_index == increment_index(f, index)
                next_slot == BitstringVec_get(f.slot_vec, next_index)
            IN IF BitAnd(next_slot, CONTINUATION_MASK) = 0
               THEN [result |-> FALSE, diverged |-> FALSE]
               ELSE IF fuel = 0
               THEN [result |-> FALSE, diverged |-> TRUE]
               ELSE contains_scan(f, next_index, remainder, fuel - 1)

contains_full(f, hash) ==
    LET qr == get_quotient_and_remainder(f, hash)
        slot == BitstringVec_get(f.slot_vec, qr.quotient)
    IN IF BitAnd(slot, OCCUPIED_MASK) = 0
       THEN [result |-> FALSE, diverged |-> FALSE]
       ELSE IF /\ slot \div Pow2(METADATA_BITS) = qr.remainder
               /\ BitAnd(slot, CONTINUATION_MASK) = 0
               /\ BitAnd(slot, SHIFTED_MASK) = 0
       THEN [result |-> TRUE, diverged |-> FALSE]
       ELSE LET rs == get_run_start(f, qr.quotient)
            IN IF rs.diverged
               THEN [result |-> FALSE, diverged |-> TRUE]
               ELSE contains_scan(f, rs.index, qr.remainder, WalkLimit(f))

contains(f, hash) == contains_full(f, hash).result

\* the loop of insert_and_shift_right, over the slot vector
RECURSIVE shift_right_loop(_, _, _, _, _)
shift_right_loop(f, slot_vec, index, curr_slot, fuel) ==
    LET next_slot == BitstringVec_get(slot_vec, index)
        is_empty_slot == BitAnd(next_slot, METADATA_MASK) = 0
        has_occupied == BitAnd(next_slot, OCCUPIED_MASK) # 0
        next_slot2 == IF has_occupied
                      THEN BitAndNot(next_slot, OCCUPIED_MASK) ELSE next_slot
        curr_slot2 == IF has_occupied
                      THEN BitOr(curr_slot, OCCUPIED_MASK) ELSE curr_slot
        slot_vec2 == BitstringVec_set(slot_vec, index, curr_slot2)
    IN IF is_empty_slot
       THEN [slot_vec |-> slot_vec2, diverged |-> FALSE]
       ELSE IF fuel = 0
       THEN [slot_vec |-> slot_vec2, diverged |-> TRUE]
       ELSE shift_right_loop(f, slot_vec2, increment_index(f, index),
                             BitOr(next_slot2, SHIFTED_MASK), fuel - 1)

insert_and_shift_right(f, index, slot) ==
    shift_right_loop(f, f.slot_vec, index, slot, WalkLimit(f))

\* "find position to insert" loop of insert
RECURSIVE find_insert_position(_, _, _, _)
find_insert_position(f, index, remainder, fuel) ==
    LET slot == BitstringVec_get(f.slot_vec, index)
    IN IF remainder < slot \div Pow2(METADATA_BITS)
       THEN [index |-> index, diverged |-> FALSE]
       ELSE LET next_index == increment_index(f, index)
                next_slot == BitstringVec_get(f.slot_vec, next_index)
            IN IF BitAnd(next_slot, CONTINUATION_MASK) = 0
               THEN [index |-> next_index, diverged |-> FALSE]
               ELSE IF fuel = 0
               THEN [index |-> next_index, diverged |-> TRUE]
               ELSE find_insert_position(f, next_index, remainder, fuel - 1)

\* insert, after the empty-slot and already-exists returns and the assertion
insert_into_run(f0, quotient, remainder, slot) ==
    LET new_run == BitAnd(slot, OCCUPIED_MASK) = 0
        f == IF new_run
             THEN [f0 EXCEPT !.slot_vec =
                      BitstringVec_set(@, quotient, BitOr(slot, OCCUPIED_MASK))]
             ELSE f0
        rs == get_run_start(f, quotient)
        run_start == rs.index
        pos == IF new_run THEN [index |-> run_start, diverged |-> FALSE]
               ELSE find_insert_position(f, run_start, remainder, WalkLimit(f))
        index == pos.index
        f2 == IF ~new_run /\ index = run_start
              THEN [f EXCEPT !.slot_vec =
                       BitstringVec_set(@, run_start,
                           BitOr(BitstringVec_get(f.slot_vec, run_start),
                                 CONTINUATION_MASK))]
              ELSE f
        new_slot1 == remainder * Pow2(METADATA_BITS)
        new_slot2 == IF ~new_run /\ index # run_start
                     THEN BitOr(new_slot1, CONTINUATION_MASK) ELSE new_slot1
        new_slot3 == IF index # quotient
                     THEN BitOr(new_slot2, SHIFTED_MASK) ELSE new_slot2
        f3 == [f2 EXCEPT !.len = @ + 1]
        sh == insert_and_shift_right(f3, index, new_slot3)
    IN IF rs.diverged \/ pos.diverged
       THEN [filter |-> f, outcome |-> "hang"]
       ELSE IF sh.diverged
       THEN [filter |-> [f3 EXCEPT !.slot_vec = sh.slot_vec], outcome |-> "hang"]
       ELSE [filter |-> [f3 EXCEPT !.slot_vec = sh.slot_vec], outcome |-> "ok"]

insert(f, hash) ==
    LET qr == get_quotient_and_remainder(f, hash)
        quotient == qr.quotient
        remainder == qr.remainder
        slot == BitstringVec_get(f.slot_vec, quotient)
        c == contains_full(f, hash)
    IN IF BitAnd(slot, METADATA_MASK) = 0
       THEN [filter |-> [f EXCEPT
                 !.slot_vec = BitstringVec_set(@, quotient,
                     BitOr(remainder * Pow2(METADATA_BITS), OCCUPIED_MASK)),
                 !.len = @ + 1],
             outcome |-> "ok"]
       ELSE IF c.diverged
       THEN [filter |-> f, outcome |-> "hang"]
       ELSE IF c.result
       THEN [filter |-> f, outcome |-> "ok"]
       ELSE IF ~usize_lt(f.len, capacity(f))
       THEN [filter |-> f, outcome |-> "panic"]
       ELSE insert_into_run(f, quotient, remainder, slot)

\* run scan of remove: the index of the matching slot, or no match
RECURSIVE remove_scan(_, _, _, _, _)
remove_scan(f, index, remainder, occupied_count, fuel) ==
    LET slot == BitstringVec_get(f.slot_vec, index)
        slot_remainder == slot \div Pow2(METADATA_BITS)
    IN IF slot_remainder = remainder
       THEN [found |-> TRUE, index |-> index,
             occupied_count |-> occupied_count, diverged |-> FALSE]
       ELSE IF slot_remainder > remainder
       THEN [found |-> FALSE, index |-> index,
             occupied_count |-> occupied_count, diverged |-> FALSE]
       ELSE LET next_index == increment_index(f, index)
                next_slot == BitstringVec_get(f.slot_vec, next_index)
                oc == IF BitAnd(next_slot, OCCUPIED_MASK) # 0
                      THEN occupied_count + 1 ELSE occupied_count
            IN IF BitAnd(next_slot, CONTINUATION_MASK) = 0
               THEN [found |-> FALSE, index |-> next_index,
                     occupied_count |-> oc, diverged |-> FALSE]
               ELSE IF fuel = 0
               THEN [found |-> FALSE, index |-> next_index,
                     occupied_count |-> oc, diverged |-> TRUE]
               ELSE remove_scan(f, next_index, remainder, oc, fuel - 1)

\* the shift-left "while" loop of remove; st holds the loop's local variables.
\* The loop is cut after WalkLimit iterations and then reported as diverged.
RECURSIVE shift_left_loop(_, _, _, _)
shift_left_loop(f, quotient, st, fuel) ==
    IF ~(\/ BitAnd(st.next_slot, CONTINUATION_MASK) # 0
         \/ BitAnd(st.next_slot, SHIFTED_MASK) # 0)
    THEN [slot_vec |-> st.slot_vec, diverged |-> FALSE]
    ELSE IF fuel = 0
    THEN [slot_vec |-> st.slot_vec, diverged |-> TRUE]
    ELSE
    LET sv1 == BitstringVec_set(st.slot_vec, st.next_index, 0)
        next_is_run_start == BitAnd(st.next_slot, CONTINUATION_MASK) = 0
        runs_count == IF next_is_run_start THEN st.runs_count + 1 ELSE st.runs_count
        sv2 == IF next_is_run_start /\ st.is_run_start
               THEN BitstringVec_set(sv1, quotient,
                        BitAndNot(BitstringVec_get(sv1, quotient), OCCUPIED_MASK))
               ELSE sv1
        slot1 == IF ~next_is_run_start /\ ~st.is_run_start
                 THEN BitOr(st.slot, CONTINUATION_MASK) ELSE st.slot
        slot2 == IF BitAnd(slot1, OCCUPIED_MASK) = 0 \/ st.occupied_count # runs_count
                 THEN BitOr(slot1, SHIFTED_MASK) ELSE slot1
        slot3 == BitOr(slot2, BitAndNot(st.next_slot, METADATA_MASK))
        sv3 == BitstringVec_set(sv2, st.index, slot3)
        occupied_count == IF BitAnd(st.next_slot, OCCUPIED_MASK) # 0
                          THEN st.occupied_count + 1 ELSE st.occupied_count
        next_index == increment_index(f, st.next_index)
    IN shift_left_loop(f, quotient,
           [slot_vec |-> sv3,
            index |-> st.next_index,
            next_index |-> next_index,
            slot |-> BitAnd(st.next_slot, OCCUPIED_MASK),
            next_slot |-> BitstringVec_get(sv3, next_index),
            runs_count |-> runs_count,
            occupied_count |-> occupied_count,
            is_run_start |-> FALSE],
           fuel - 1)

\* remove, after the item was found at `index`: delete and shift left
remove_found(f, quotient, index, runs_count, occupied_count, build) ==
    LET slot == BitstringVec_get(f.slot_vec, index)
        is_run_start == BitAnd(slot, CONTINUATION_MASK) = 0
        sv0 == BitstringVec_set(f.slot_vec, index, 0)
        next_index == increment_index(f, index)
        sh == shift_left_loop(f, quotient,
                  [slot_vec |-> sv0,
                   index |-> index,
                   next_index |-> next_index,
                   slot |-> BitAnd(slot, OCCUPIED_MASK),
                   next_slot |-> BitstringVec_get(sv0, next_index),
                   runs_count |-> runs_count,
                   occupied_count |-> occupied_count,
                   is_run_start |-> is_run_start],
                  WalkLimit(f))
        f2 == [f EXCEPT !.slot_vec = sh.slot_vec]
    IN IF sh.diverged
       THEN [filter |-> f2, outcome |-> "hang"]
       ELSE IF f.len = 0 /\ build = "debug"
       THEN [filter |-> f2, outcome |-> "panic"]
       ELSE [filter |-> [f2 EXCEPT !.len = @ - 1], outcome |-> "ok"]

remove(f, hash, build) ==
    LET qr == get_quotient_and_remainder(f, hash)
        quotient == qr.quotient
        remainder == qr.remainder
        rs == get_run_start(f, quotient)
        sc == remove_scan(f, rs.index, remainder, rs.total_occupied_count,
                          WalkLimit(f))
    IN IF BitAnd(BitstringVec_get(f.slot_vec, quotient), METADATA_MASK) = 0
       THEN [filter |-> f, outcome |-> "ok"]
       ELSE IF rs.diverged \/ sc.diverged
       THEN [filter |-> f, outcome |-> "hang"]
       ELSE IF ~sc.found
       THEN [filter |-> f, outcome |-> "ok"]
       ELSE remove_found(f, quotient, sc.index, rs.runs_count, sc.occupied_count,
                         build)

clear(f) ==
    [f EXCEPT !.slot_vec = [@ EXCEPT !.occupied_len = 0,
                                     !.slots = [i \in DOMAIN @ |-> 0]],
              !.len = 0]

\* ---- the quotient filter as a state machine ----
\* qf        the QuotientFilter
\* qf_items  the hashes of the items inserted and not removed since (an item
\*           goes when any item of the same fingerprint is removed)
\* qf_last   the last call: its operation, the hash of its item, how it ended
\*           ("ok", "panic", "hang"), whether the fingerprint of the item was stored
\*           before the call, and for a remove whether it directly follows the
\*           insert of the same item when its fingerprint was not stored

\*           and the number of calls made so far (at most MaxCalls are made)

\* value of the variables of a structure the specification does not run
Absent == "absent"

QFStoredFp(f, items, hash) ==
    \E y \in items : get_quotient_and_remainder(f, y) = get_quotient_and_remainder(f, hash)

QFNonEmptySlots(f) ==
    {i \in 0 .. capacity(f) - 1 :
        BitAnd(BitstringVec_get(f.slot_vec, i), METADATA_MASK) # 0}

QFFull(f) == Cardinality(QFNonEmptySlots(f)) = capacity(f)

InitQF ==
    /\ qf \in {QuotientFilter_with_hasher(QuotientBits, r) : r \in 1 .. MaxRemainderBits}
    /\ qf_items = {}
    /\ qf_last = [op |-> "new", hash |-> 0, outcome |-> "ok",
                  stored_before |-> FALSE, roundtrip |-> FALSE, calls |-> 0]
    /\ cf = Absent /\ cf_items = Absent /\ cf_last = Absent
    /\ bv = Absent /\ bv_last = Absent
    /\ sv = Absent /\ sv_last = Absent
    /\ hi = Absent
    /\ scf = Absent /\ scf_last = Absent
    /\ sbf = Absent /\ sbf_last = Absent
    /\ by = Absent
    /\ bf = Absent /\ bf_items = Absent /\ bf_last = Absent
    /\ dd = Absent /\ dd_last = Absent
    /\ cms = Absent /\ cms_sums = Absent /\ cms_last = Absent
    /\ hl = Absent /\ hl_last = Absent
    /\ qn = Absent

QFInsert(h) ==
    /\ qf_last.outcome = "ok"
    /\ qf_last.calls < MaxCalls
    /\ LET r == insert(qf, h)
       IN /\ qf' = r.filter
          /\ qf_items' = IF r.outcome = "ok" THEN qf_items \cup {h} ELSE qf_items
          /\ qf_last' = [op |-> "insert", hash |-> h, outcome |-> r.outcome,
                         stored_before |-> QFStoredFp(qf, qf_items, h),
                         roundtrip |-> FALSE, calls |-> qf_last.calls + 1]
    /\ UNCHANGED <<cf_vars, bv_vars, sv_vars, hi_vars, scf_vars, sbf_vars, by_vars, bf_vars, dd_vars, cms_vars, hl_vars, qn_vars>>

QFRemove(h) ==
    /\ qf_last.outcome = "ok"
    /\ qf_last.calls < MaxCalls
    /\ \E build \in Builds :
         LET r == remove(qf, h, build)
         IN /\ qf' = r.filter
            /\ qf_items' =
                 IF r.outcome = "ok"
                 THEN {y \in qf_items : get_quotient_and_remainder(qf, y)
                                          # get_quotient_and_remainder(qf, h)}
                 ELSE qf_items
            /\ qf_last' = [op |-> "remove", hash |-> h, outcome |-> r.outcome,
                           stored_before |-> QFStoredFp(qf, qf_items, h),
                           roundtrip |-> /\ qf_last.op = "insert"
                                         /\ qf_last.hash = h
                                         /\ ~qf_last.stored_before,
                           calls |-> qf_last.calls + 1]
    /\ UNCHANGED <<cf_vars, bv_vars, sv_vars, hi_vars, scf_vars, sbf_vars, by_vars, bf_vars, dd_vars, cms_vars, hl_vars, qn_vars>>

QFClear ==
    /\ qf_last.outcome = "ok"
    /\ qf_last.calls < MaxCalls
    /\ qf' = clear(qf)
    /\ qf_items' = {}
    /\ qf_last' = [op |-> "clear", hash |-> 0, outcome |-> "ok",
                   stored_before |-> FALSE, roundtrip |-> FALSE,
                   calls |-> qf_last.calls + 1]
    /\ UNCHANGED <<cf_vars, bv_vars, sv_vars, hi_vars, scf_vars, sbf_vars, by_vars, bf_vars, dd_vars, cms_vars, hl_vars, qn_vars>>

NextQF ==
    \/ \E h \in Hashes : QFInsert(h)
    \/ \E h \in Hashes : QFRemove(h)
    \/ QFClear

SpecQF == InitQF /\ [][NextQF]_vars

\* ---- claims about the quotient filter ----

QFFingerprints(f, items) == {get_quotient_and_remainder(f, x) : x \in items}

\* C1: no false negatives: after any sequence of insert and remove calls none of
\* which panicked, every item inserted and not removed since (whose fingerprint
\* no removed item shares) is reported by contains.
C1_NoFalseNegative ==
    qf_last.outcome = "ok" => \A x \in qf_items : contains(qf, x)

\* C3: remove(x) of an item whose fingerprint is not stored returns and changes
\* nothing: every slot and len are as before (so is every contains result).
C3_RemoveAbsentIsNoOp ==
    [][(qf_last'.op = "remove" /\ ~qf_last'.stored_before)
         => (qf_last'.outcome = "ok" /\ qf' = qf)]_vars

\* C4: round trip: insert(x) from a state where x's fingerprint is not stored,
\* directly followed by remove(x), leaves contains(x) = false.
C4_RoundTrip ==
    (qf_last.op = "remove" /\ qf_last.roundtrip)
        => (qf_last.outcome = "ok" /\ ~contains(qf, qf_last.hash))

\* C7: insert panics if and only if every slot is non-empty and the fingerprint of
\* the item is not stored; with an empty slot left it returns normally.
C7_InsertPanicsIffFull ==
    [][qf_last'.op = "insert"
         => /\ (qf_last'.outcome = "panic")
                 <=> (QFFull(qf) /\ ~contains(qf, qf_last'.hash))
            /\ (~QFFull(qf) => qf_last'.outcome = "ok")]_vars

\* C8: len() is the number of distinct fingerprints stored, which is the number of
\* non-empty slots; it grows by 1 on insert of a fingerprint that is not stored,
\* stays on insert of a stored one and shrinks by 1 on remove of a stored one.
C8_LenIsStoredCount ==
    qf_last.outcome = "ok"
        => /\ qf.len = Cardinality(QFFingerprints(qf, qf_items))
           /\ qf.len = Cardinality(QFNonEmptySlots(qf))


(***************************************************************************)
(* BitArrayVec (src/src/bit_array_vec.rs), byte by byte.                   *)
(* Values stay below 2^31, so a shift by 31 or more bits yields 0.         *)
(***************************************************************************)
BLOCK_BIT_COUNT == 8

\* x >> n on a value below 2^31
Shr(x, n) == IF n >= 31 THEN 0 ELSE x \div Pow2(n)

\* (x << n) as u8
Shl8(x, n) == IF x = 0 THEN 0 ELSE (x * Pow2(n)) % 256

AllZero(bytes) == \A i \in DOMAIN bytes : bytes[i] = 0

BitArrayVec_get_block_count(bit_count, len) ==
    (bit_count * len + BLOCK_BIT_COUNT - 1) \div BLOCK_BIT_COUNT

BitArrayVec_get_elem_count(bit_count, block_count) ==
    (block_count * BLOCK_BIT_COUNT) \div bit_count

\* blocks_capacity is the capacity of the `blocks` allocation: vec![0; n] allocates
\* exactly n bytes and the cuckoo filter never grows the vector.
BitArrayVec_new(bit_count, len) ==
    [blocks |-> [i \in 1 .. BitArrayVec_get_block_count(bit_count, len) |-> 0],
     blocks_capacity |-> BitArrayVec_get_block_count(bit_count, len),
     bit_count |-> bit_count,
     occupied_len |-> 0,
     len |-> len]

\* the while loop of get; blocks are indexed from 1 here
RECURSIVE BitArrayVec_get_loop(_, _, _, _, _)
BitArrayVec_get_loop(vec, bits_left, bits_offset, ret_offset, ret) ==
    IF bits_left = 0 THEN ret
    ELSE
      LET curr_bits == Min(bits_left, 8)
          off == bits_offset % 8
          blk == vec.blocks[bits_offset \div 8 + 1]
          old_bits ==
              IF off = 0 THEN blk
              ELSE IF 8 - off >= curr_bits THEN Shr(blk, off)
              ELSE BitOr(Shr(blk, off),
                         Shl8(vec.blocks[bits_offset \div 8 + 2], 8 - off))
      IN BitArrayVec_get_loop(vec, bits_left - curr_bits, bits_offset + curr_bits,
             ret_offset + curr_bits,
             [ret EXCEPT ![ret_offset \div 8 + 1] =
                  BitAnd(old_bits, Shr(255, 8 - curr_bits))])

\* get(index) for index < len (the assert is checked by the callers below)
BitArrayVec_get(vec, index) ==
    BitArrayVec_get_loop(vec, vec.bit_count, index * vec.bit_count, 0,
                         [i \in 1 .. (vec.bit_count + 7) \div 8 |-> 0])

\* the while loop of set; bytes and blocks are indexed from 1 here
RECURSIVE BitArrayVec_set_loop(_, _, _, _, _)
BitArrayVec_set_loop(blocks, bytes, bits_left, bits_offset, byte_offset) ==
    IF bits_left = 0 THEN blocks
    ELSE
      LET curr_bits == Min(bits_left, 8 - (bits_offset % 8))
          left == bits_left - curr_bits
          boff == byte_offset % 8
          raw_bits ==
              IF boff = 0 THEN bytes[byte_offset \div 8 + 1]
              ELSE IF 8 - boff >= left + curr_bits
                   THEN Shr(bytes[byte_offset \div 8 + 1], boff)
              ELSE BitOr(Shr(bytes[byte_offset \div 8 + 1], boff),
                         Shl8(bytes[byte_offset \div 8 + 2], 8 - boff))
          new_bits == Shr(Shl8(raw_bits, 8 - curr_bits), 8 - curr_bits)
          mask == Shl8(Shr(255, 8 - curr_bits), bits_offset % 8)
          b == bits_offset \div 8 + 1
          cleared == BitAndNot(blocks[b], mask)
      IN BitArrayVec_set_loop(
             [blocks EXCEPT ![b] = BitOr(cleared, Shl8(new_bits, bits_offset % 8))],
             bytes, left, bits_offset + curr_bits, byte_offset + curr_bits)

\* set(index, bytes) for index < len
BitArrayVec_set(vec, index, bytes) ==
    LET prev_is_zero == AllZero(BitArrayVec_get(vec, index))
        written == [vec EXCEPT !.blocks =
                       BitArrayVec_set_loop(vec.blocks, bytes, vec.bit_count,
                                            index * vec.bit_count, 0)]
        curr_is_zero == AllZero(BitArrayVec_get(written, index))
    IN IF prev_is_zero = curr_is_zero THEN written
       ELSE IF curr_is_zero
            THEN [written EXCEPT !.occupied_len = @ - 1]
            ELSE [written EXCEPT !.occupied_len = @ + 1]

BitArrayVec_clear(vec) ==
    [vec EXCEPT !.occupied_len = 0, !.blocks = [i \in DOMAIN @ |-> 0]]

BitArrayVec_capacity(vec) ==
    BitArrayVec_get_elem_count(vec.bit_count, vec.blocks_capacity)


(***************************************************************************)
(* CuckooFilter (src/src/cuckoo/cuckoo_filter.rs)                          *)
(***************************************************************************)
\* Bounds of the cuckoo filter model.
MaxItemCount == 3
MaxFingerprintBits == 3
MaxEntries == 2
MaxH0 == 4
MaxH1 == 2
MaxCFCalls == 4

DEFAULT_MAX_KICKS == 512

\* An item is seen through the two 64-bit hashes the filter takes of it.
Items == [h0 : 0 .. MaxH0, h1 : 0 .. MaxH1]

RECURSIVE next_power_of_two(_)
next_power_of_two(n) == IF n <= 1 THEN 1 ELSE 2 * next_power_of_two((n + 1) \div 2)

from_parameters_with_hashers(item_count, fingerprint_bit_count, entries_per_index) ==
    LET exact_bucket_len == (item_count + entries_per_index - 1) \div entries_per_index
        bucket_len == next_power_of_two(exact_bucket_len)
    IN [max_kicks |-> DEFAULT_MAX_KICKS,
        entries_per_index |-> entries_per_index,
        fingerprint_vec |-> BitArrayVec_new(fingerprint_bit_count,
                                            bucket_len * entries_per_index),
        extra_items |-> << >>]

CuckooFilter_len(f) == f.fingerprint_vec.occupied_len

extra_items_len(f) == Len(f.extra_items)

is_nearly_full(f) == f.extra_items # << >>

bucket_len(f) == BitArrayVec_capacity(f.fingerprint_vec) \div f.entries_per_index

fingerprint_bit_count(f) == f.fingerprint_vec.bit_count

\* the eight little-endian bytes of a raw fingerprint
get_fingerprint(raw_fingerprint) ==
    [i \in 1 .. 8 |-> BitAnd(Shr(raw_fingerprint, (i - 1) * 8), 255)]

RECURSIVE get_raw_fingerprint_from(_, _)
get_raw_fingerprint_from(fingerprint, i) ==
    IF i > Len(fingerprint) THEN 0
    ELSE BitOr(IF fingerprint[i] = 0 THEN 0
               ELSE fingerprint[i] * Pow2((i - 1) * 8),
               get_raw_fingerprint_from(fingerprint, i + 1))

get_raw_fingerprint(fingerprint) == get_raw_fingerprint_from(fingerprint, 1)

get_vec_index(f, index, bucket_index) == index * f.entries_per_index + bucket_index

\* The hasher applied to h0 when a fingerprint is all zeros: a fixed injective
\* hash function for which the rehash loop ends.
Rehash(h0) == h0 + 1

\* the fingerprint bits of h0 without the rehash loop
get_raw_fingerprint_no_rehash(f, h0) == h0 % Pow2(fingerprint_bit_count(f))

RECURSIVE get_nonzero_raw_fingerprint(_, _)
get_nonzero_raw_fingerprint(f, h0) ==
    LET raw_fingerprint == h0 % Pow2(fingerprint_bit_count(f))
    IN IF raw_fingerprint = 0
       THEN get_nonzero_raw_fingerprint(f, Rehash(h0))
       ELSE raw_fingerprint

get_fingerprint_and_indexes(f, item) ==
    LET raw_fingerprint == get_nonzero_raw_fingerprint(f, item.h0)
        index_1 == item.h1 % bucket_len(f)
        index_2 == BitXor(index_1, raw_fingerprint) % bucket_len(f)
    IN [fingerprint |-> get_fingerprint(raw_fingerprint),
        raw |-> raw_fingerprint,
        index_1 |-> index_1,
        index_2 |-> index_2]

\* iter().zip(other).all(|pair| pair.0 == pair.1)
ZipAllEqual(a, b) == \A i \in 1 .. Min(Len(a), Len(b)) : a[i] = b[i]

\* the any(..) of contains_fingerprint comparing the first byte only
RECURSIVE contains_any_first_byte(_, _, _, _, _)
contains_any_first_byte(f, fingerprint, index_1, index_2, bucket_index) ==
    IF bucket_index = f.entries_per_index THEN "false"
    ELSE
      LET vec_index_1 == get_vec_index(f, index_1, bucket_index)
          vec_index_2 == get_vec_index(f, index_2, bucket_index)
      IN IF vec_index_1 >= f.fingerprint_vec.len THEN "panic"
         ELSE IF BitArrayVec_get(f.fingerprint_vec, vec_index_1)[1] = fingerprint[1]
              THEN "true"
         ELSE IF vec_index_2 >= f.fingerprint_vec.len THEN "panic"
         ELSE IF BitArrayVec_get(f.fingerprint_vec, vec_index_2)[1] = fingerprint[1]
              THEN "true"
         ELSE contains_any_first_byte(f, fingerprint, index_1, index_2, bucket_index + 1)

\* the any(..) of contains_fingerprint; an index at or past the length of the
\* vector fails the assert of BitArrayVec::get
RECURSIVE contains_any(_, _, _, _, _)
contains_any(f, fingerprint, index_1, index_2, bucket_index) ==
    IF bucket_index = f.entries_per_index THEN "false"
    ELSE
      LET vec_index_1 == get_vec_index(f, index_1, bucket_index)
          vec_index_2 == get_vec_index(f, index_2, bucket_index)
      IN IF vec_index_1 >= f.fingerprint_vec.len THEN "panic"
         ELSE IF ZipAllEqual(BitArrayVec_get(f.fingerprint_vec, vec_index_1), fingerprint)
              THEN "true"
         ELSE IF vec_index_2 >= f.fingerprint_vec.len THEN "panic"
         ELSE IF ZipAllEqual(BitArrayVec_get(f.fingerprint_vec, vec_index_2), fingerprint)
              THEN "true"
         ELSE contains_any(f, fingerprint, index_1, index_2, bucket_index + 1)

\* "true", "false" or "panic"
contains_fingerprint(f, fingerprint, index_1, index_2) ==
    LET raw_fingerprint == get_raw_fingerprint(fingerprint)
        min_index == Min(index_1, index_2)
    IN IF \E k \in DOMAIN f.extra_items : f.extra_items[k] = <<raw_fingerprint, min_index>>
       THEN "true"
       ELSE contains_any(f, fingerprint, index_1, index_2, 0)

CuckooFilter_contains(f, item) ==
    LET fi == get_fingerprint_and_indexes(f, item)
    IN contains_fingerprint(f, fi.fingerprint, fi.index_1, fi.index_2)

\* result is "true", "false" or "panic"
RECURSIVE insert_fingerprint_from(_, _, _, _)
insert_fingerprint_from(f, fingerprint, index, bucket_index) ==
    IF bucket_index = f.entries_per_index THEN [filter |-> f, result |-> "false"]
    ELSE
      LET vec_index == get_vec_index(f, index, bucket_index)
      IN IF vec_index >= f.fingerprint_vec.len THEN [filter |-> f, result |-> "panic"]
         ELSE IF AllZero(BitArrayVec_get(f.fingerprint_vec, vec_index))
              THEN [filter |-> [f EXCEPT !.fingerprint_vec =
                                   BitArrayVec_set(@, vec_index, fingerprint)],
                    result |-> "true"]
         ELSE insert_fingerprint_from(f, fingerprint, index, bucket_index + 1)

insert_fingerprint(f, fingerprint, index) == insert_fingerprint_from(f, fingerprint, index, 0)


\* One pass of the kick loop of insert from the loop state
\* s = [filter, fingerprint, index, prev_index], for the slot bucket_index the
\* random number generator picks. kind is "more" (the loop goes on), "ok"
\* (insert returned) or "panic".
kick(s, bucket_index) ==
    LET f == s.filter
        vec_index == get_vec_index(f, s.index, bucket_index)
    IN IF vec_index >= f.fingerprint_vec.len
       THEN [kind |-> "panic", state |-> s]
       ELSE
         LET new_fingerprint == BitArrayVec_get(f.fingerprint_vec, vec_index)
             swapped == [f EXCEPT !.fingerprint_vec =
                            BitArrayVec_set(@, vec_index, s.fingerprint)]
             prev_index == s.index
             index == BitXor(prev_index, get_raw_fingerprint(new_fingerprint))
                          % bucket_len(f)
             ins == insert_fingerprint(swapped, new_fingerprint, index)
             next == [filter |-> ins.filter, fingerprint |-> new_fingerprint,
                      index |-> index, prev_index |-> prev_index]
         IN [kind |-> IF ins.result = "true" THEN "ok"
                      ELSE IF ins.result = "panic" THEN "panic"
                      ELSE "more",
             state |-> next]

\* the loop states after one more pass, over all choices of the generator
kick_pass(S) ==
    UNION {{kick(s, bucket_index) : bucket_index \in 0 .. s.filter.entries_per_index - 1}
              : s \in S}

\* the end of insert without the push to extra_items
spill_without_push(s) == [filter |-> s.filter, outcome |-> "ok"]

\* extra_items.push((raw fingerprint, min(prev_index, index)))
spill(s) ==
    [filter |-> [s.filter EXCEPT !.extra_items =
                    Append(@, <<get_raw_fingerprint(s.fingerprint),
                                Min(s.prev_index, s.index)>>)],
     outcome |-> "ok"]

\* The outcomes of `for _ in 0..max_kicks`. levels[k + 1] is the set of loop
\* states that k passes can leave; done collects the outcomes of the passes that
\* returned or panicked. The sets of loop states repeat with some period, so
\* the set after max_kicks passes is read off the repeating part.
RECURSIVE kick_loop(_, _, _)
kick_loop(max_kicks, levels, done) ==
    LET k == Len(levels) - 1
        S == levels[k + 1]
    IN IF k = max_kicks \/ S = {}
       THEN done \cup {spill(s) : s \in S}
       ELSE IF \E j \in 1 .. k : levels[j] = S
       THEN LET j == CHOOSE j \in 1 .. k : levels[j] = S
                period == (k + 1) - j
                last == j + ((max_kicks - (j - 1)) % period)
            IN done \cup {spill(s) : s \in levels[last]}
       ELSE LET passed == kick_pass(S)
            IN kick_loop(max_kicks,
                   Append(levels, {p.state : p \in {q \in passed : q.kind = "more"}}),
                   done \cup {[filter |-> p.state.filter, outcome |-> p.kind]
                                 : p \in {q \in passed : q.kind # "more"}})

\* insert(item): the set of [filter, outcome] the call can end in, outcome being
\* "ok" or "panic"; the choices are those of the random number generator.
CuckooFilter_insert(f, item) ==
    LET fi == get_fingerprint_and_indexes(f, item)
        c == contains_fingerprint(f, fi.fingerprint, fi.index_1, fi.index_2)
        ins_1 == insert_fingerprint(f, fi.fingerprint, fi.index_1)
        ins_2 == insert_fingerprint(f, fi.fingerprint, fi.index_2)
    IN IF c = "panic" THEN {[filter |-> f, outcome |-> "panic"]}
       ELSE IF c = "true" THEN {[filter |-> f, outcome |-> "ok"]}
       ELSE IF ins_1.result = "panic" THEN {[filter |-> f, outcome |-> "panic"]}
       ELSE IF ins_1.result = "true" THEN {[filter |-> ins_1.filter, outcome |-> "ok"]}
       ELSE IF ins_2.result = "panic" THEN {[filter |-> f, outcome |-> "panic"]}
       ELSE IF ins_2.result = "true" THEN {[filter |-> ins_2.filter, outcome |-> "ok"]}
       ELSE kick_loop(f.max_kicks,
                <<{[filter |-> f, fingerprint |-> fi.fingerprint,
                    index |-> index, prev_index |-> index]
                      : index \in {fi.index_1, fi.index_2}}>>,
                {})

\* Vec::swap_remove(index), index counted from 1 here
swap_remove(seq, index) ==
    LET moved == [seq EXCEPT ![index] = seq[Len(seq)]]
    IN SubSeq(moved, 1, Len(seq) - 1)

RECURSIVE remove_from(_, _, _, _, _)
remove_from(f, raw_fingerprint, index_1, index_2, bucket_index) ==
    IF bucket_index = f.entries_per_index THEN [filter |-> f, outcome |-> "ok"]
    ELSE
      LET vec_index_1 == get_vec_index(f, index_1, bucket_index)
          vec_index_2 == get_vec_index(f, index_2, bucket_index)
      IN IF vec_index_1 >= f.fingerprint_vec.len \/ vec_index_2 >= f.fingerprint_vec.len
         THEN [filter |-> f, outcome |-> "panic"]
         ELSE
           LET fingerprint_1 == BitArrayVec_get(f.fingerprint_vec, vec_index_1)
               fingerprint_2 == BitArrayVec_get(f.fingerprint_vec, vec_index_2)
               vec_1 == IF get_raw_fingerprint(fingerprint_1) = raw_fingerprint
                        THEN BitArrayVec_set(f.fingerprint_vec, vec_index_1,
                                             get_fingerprint(0))
                        ELSE f.fingerprint_vec
               vec_2 == IF get_raw_fingerprint(fingerprint_2) = raw_fingerprint
                        THEN BitArrayVec_set(vec_1, vec_index_2, get_fingerprint(0))
                        ELSE vec_1
           IN remove_from([f EXCEPT !.fingerprint_vec = vec_2], raw_fingerprint,
                          index_1, index_2, bucket_index + 1)

remove_fingerprint(f, fingerprint, index_1, index_2) ==
    LET raw_fingerprint == get_raw_fingerprint(fingerprint)
        min_index == Min(index_1, index_2)
        found == {k \in DOMAIN f.extra_items :
                     f.extra_items[k] = <<raw_fingerprint, min_index>>}
        position == CHOOSE k \in found : \A m \in found : k <= m
        f1 == IF found = {} THEN f
              ELSE [f EXCEPT !.extra_items = swap_remove(@, position)]
    IN remove_from(f1, raw_fingerprint, index_1, index_2, 0)

CuckooFilter_remove(f, item) ==
    LET fi == get_fingerprint_and_indexes(f, item)
    IN remove_fingerprint(f, fi.fingerprint, fi.index_1, fi.index_2)

CuckooFilter_clear(f) ==
    [f EXCEPT !.fingerprint_vec = BitArrayVec_clear(@), !.extra_items = << >>]


\* ---- the cuckoo filter as a state machine ----
\* cf        the CuckooFilter
\* cf_items  history: the items inserted and not removed since; a remove takes
\*           out every item with the fingerprint and bucket pair of its argument
\* cf_last   the outcome of the last call ("ok" or "panic") and the number of
\*           calls made

StoredCount(f) == CuckooFilter_len(f) + extra_items_len(f)

SameFingerprintAndBuckets(f, x, y) ==
    LET fx == get_fingerprint_and_indexes(f, x)
        fy == get_fingerprint_and_indexes(f, y)
    IN /\ fx.raw = fy.raw
       /\ {fx.index_1, fx.index_2} = {fy.index_1, fy.index_2}

InitCF ==
    /\ cf \in {from_parameters_with_hashers(item_count, bit_count, entries) :
                 item_count \in 1 .. MaxItemCount,
                 bit_count \in 2 .. MaxFingerprintBits,
                 entries \in 1 .. MaxEntries}
    /\ cf_items = {}
    /\ cf_last = [outcome |-> "ok", calls |-> 0]
    /\ qf = Absent /\ qf_items = Absent /\ qf_last = Absent
    /\ bv = Absent /\ bv_last = Absent
    /\ sv = Absent /\ sv_last = Absent
    /\ hi = Absent
    /\ scf = Absent /\ scf_last = Absent
    /\ sbf = Absent /\ sbf_last = Absent
    /\ by = Absent
    /\ bf = Absent /\ bf_items = Absent /\ bf_last = Absent
    /\ dd = Absent /\ dd_last = Absent
    /\ cms = Absent /\ cms_sums = Absent /\ cms_last = Absent
    /\ hl = Absent /\ hl_last = Absent
    /\ qn = Absent

CFInsert(x) ==
    /\ cf_last.outcome = "ok"
    /\ cf_last.calls < MaxCFCalls
    /\ \E r \in CuckooFilter_insert(cf, x) :
         /\ cf' = r.filter
         /\ cf_items' = IF r.outcome = "ok" THEN cf_items \cup {x} ELSE cf_items
         /\ cf_last' = [outcome |-> r.outcome, calls |-> cf_last.calls + 1]
    /\ UNCHANGED <<qf_vars, bv_vars, sv_vars, hi_vars, scf_vars, sbf_vars, by_vars, bf_vars, dd_vars, cms_vars, hl_vars, qn_vars>>

CFRemove(x) ==
    /\ cf_last.outcome = "ok"
    /\ cf_last.calls < MaxCFCalls
    /\ LET r == CuckooFilter_remove(cf, x)
       IN /\ cf' = r.filter
          /\ cf_items' = IF r.outcome = "ok"
                         THEN {y \in cf_items : ~SameFingerprintAndBuckets(cf, x, y)}
                         ELSE cf_items
          /\ cf_last' = [outcome |-> r.outcome, calls |-> cf_last.calls + 1]
    /\ UNCHANGED <<qf_vars, bv_vars, sv_vars, hi_vars, scf_vars, sbf_vars, by_vars, bf_vars, dd_vars, cms_vars, hl_vars, qn_vars>>

CFClear ==
    /\ cf_last.outcome = "ok"
    /\ cf_last.calls < MaxCFCalls
    /\ cf' = CuckooFilter_clear(cf)
    /\ cf_items' = {}
    /\ cf_last' = [outcome |-> "ok", calls |-> cf_last.calls + 1]
    /\ UNCHANGED <<qf_vars, bv_vars, sv_vars, hi_vars, scf_vars, sbf_vars, by_vars, bf_vars, dd_vars, cms_vars, hl_vars, qn_vars>>

NextCF ==
    \/ \E x \in Items : CFInsert(x)
    \/ \E x \in Items : CFRemove(x)
    \/ CFClear

SpecCF == InitCF /\ [][NextCF]_vars

\* C2: the cuckoo filter has no false negatives: every item inserted and not
\* removed since (nor sharing fingerprint and bucket pair with a removed item)
\* is reported by contains, also after kicks and spills to extra_items.
C2_CuckooNoFalseNegative ==
    cf_last.outcome = "ok" => \A x \in cf_items : CuckooFilter_contains(cf, x) = "true"

\* C5: remove(x) of a stored item x, no other stored item having its fingerprint
\* and bucket pair, leaves contains(x) = false wherever the fingerprint was held.
C5_RemoveLeavesAbsent ==
    [][\A x \in Items :
         (/\ x \in cf_items
          /\ ~\E y \in cf_items \ {x} : SameFingerprintAndBuckets(cf, x, y)
          /\ CFRemove(x))
           => /\ cf_last'.outcome = "ok"
              /\ CuckooFilter_contains(cf', x) = "false"]_vars

\* C6: insert is total: it never panics, and it stores exactly one more
\* fingerprint when the item was not contained, spilling at most one fingerprint
\* to extra_items, after which is_nearly_full() holds.
C6_InsertTotal ==
    [][\A x \in Items :
         CFInsert(x)
           => /\ cf_last'.outcome = "ok"
              /\ extra_items_len(cf') \in {extra_items_len(cf), extra_items_len(cf) + 1}
              /\ extra_items_len(cf') = extra_items_len(cf) + 1 => is_nearly_full(cf')
              /\ CuckooFilter_contains(cf, x) = "false"
                   => StoredCount(cf') = StoredCount(cf) + 1]_vars

\* C9: a remove(x) that returns takes exactly one fingerprint out of the table
\* and extra_items together when contains(x) held, and leaves the filter as it
\* was when contains(x) did not hold.
C9_RemoveDelta ==
    [][\A x \in Items :
         (CFRemove(x) /\ cf_last'.outcome = "ok")
           => /\ CuckooFilter_contains(cf, x) = "true"
                   => StoredCount(cf') = StoredCount(cf) - 1
              /\ CuckooFilter_contains(cf, x) = "false" => cf' = cf]_vars


(***************************************************************************)
(* BitVec (src/src/bit_vec.rs)                                             *)
(* A BitVec is [blocks, len, one_count]; blocks are bytes, indexed from 1.  *)
(* one_count is a usize: it is kept as the representative, possibly         *)
(* negative, of its value modulo 2^64, which is exact for the additions and *)
(* subtractions the code makes. An arithmetic overflow panics in a build    *)
(* with overflow checks ("debug") and wraps otherwise ("release").          *)
(***************************************************************************)
\* Bounds of the bit vector model.
MaxBVLen == 9
MaxBVCalls == 3

BitVec_get_block_count(len) == (len + BLOCK_BIT_COUNT - 1) \div BLOCK_BIT_COUNT

Not8(byte) == 255 - byte

RECURSIVE byte_count_ones(_)
byte_count_ones(byte) ==
    IF byte = 0 THEN 0 ELSE (byte % 2) + byte_count_ones(byte \div 2)

RECURSIVE reverse_byte_from(_, _)
reverse_byte_from(byte, i) ==
    IF i = BLOCK_BIT_COUNT THEN 0
    ELSE BitOr(Shl8(BitAnd(Shr(byte, i), 1), BLOCK_BIT_COUNT - i - 1),
               reverse_byte_from(byte, i + 1))

reverse_byte(byte) == reverse_byte_from(byte, 0)

clear_extra_bits(v) ==
    LET extra_bits == v.len % BLOCK_BIT_COUNT
        mask == Pow2(extra_bits) - 1
        blocks_len == Len(v.blocks)
    IN IF extra_bits > 0
       THEN [v EXCEPT !.blocks[blocks_len] = BitAnd(@, mask)]
       ELSE v

BitVec_new(len) ==
    [blocks |-> [i \in 1 .. BitVec_get_block_count(len) |-> 0],
     len |-> len,
     one_count |-> 0]

BitVec_from_elem(len, bit) ==
    clear_extra_bits(
        [blocks |-> [i \in 1 .. BitVec_get_block_count(len) |->
                        IF bit THEN 255 ELSE 0],
         len |-> len,
         one_count |-> IF bit THEN len ELSE 0])

RECURSIVE SumOnes(_, _)
SumOnes(bytes, i) ==
    IF i > Len(bytes) THEN 0 ELSE byte_count_ones(bytes[i]) + SumOnes(bytes, i + 1)

\* from_bytes as it would be if the bytes were stored as they come
BitVec_from_bytes_unreversed(bytes) ==
    [blocks |-> bytes,
     len |-> Len(bytes) * BLOCK_BIT_COUNT,
     one_count |-> SumOnes(bytes, 1)]

BitVec_from_bytes(bytes) ==
    [blocks |-> [i \in 1 .. Len(bytes) |-> reverse_byte(bytes[i])],
     len |-> Len(bytes) * BLOCK_BIT_COUNT,
     one_count |-> SumOnes(bytes, 1)]

to_bytes(v) == [i \in 1 .. Len(v.blocks) |-> reverse_byte(v.blocks[i])]

BitVec_with_capacity(len) == [blocks |-> << >>, len |-> 0, one_count |-> 0]

\* get(index) for index < len
BitVec_get(v, index) ==
    BitAnd(Shr(v.blocks[index \div BLOCK_BIT_COUNT + 1], index % BLOCK_BIT_COUNT), 1) # 0

\* one_count -= 1
DecOneCount(v, build) ==
    IF v.one_count = 0 /\ build = "debug"
    THEN [vec |-> v, outcome |-> "panic"]
    ELSE [vec |-> [v EXCEPT !.one_count = @ - 1], outcome |-> "ok"]

BitVec_set(v, index, bit, build) ==
    IF index >= v.len THEN [vec |-> v, outcome |-> "panic"]
    ELSE
      LET block_index == index \div BLOCK_BIT_COUNT + 1
          bit_index == index % BLOCK_BIT_COUNT
          mask == Pow2(bit_index)
          prev == BitAnd(Shr(v.blocks[block_index], bit_index), 1) # 0
      IN IF bit
         THEN [vec |-> [v EXCEPT !.one_count = IF prev THEN @ ELSE @ + 1,
                                 !.blocks[block_index] = BitOr(@, mask)],
               outcome |-> "ok"]
         ELSE LET counted == IF prev THEN DecOneCount(v, build)
                             ELSE [vec |-> v, outcome |-> "ok"]
              IN IF counted.outcome = "panic" THEN counted
                 ELSE [vec |-> [counted.vec EXCEPT
                                   !.blocks[block_index] = BitAndNot(@, mask)],
                       outcome |-> "ok"]

set_all(v, bit) ==
    clear_extra_bits(
        [v EXCEPT !.one_count = IF bit THEN v.len ELSE 0,
                  !.blocks = [i \in DOMAIN @ |-> IF bit THEN 255 ELSE 0]])

flip(v, index, build) ==
    IF index >= v.len THEN [vec |-> v, outcome |-> "panic"]
    ELSE
      LET block_index == index \div BLOCK_BIT_COUNT + 1
          bit_index == index % BLOCK_BIT_COUNT
          mask == Pow2(bit_index)
      IN IF BitAnd(Shr(v.blocks[block_index], bit_index), 1) = 0
         THEN [vec |-> [v EXCEPT !.one_count = @ + 1,
                                 !.blocks[block_index] = BitOr(@, mask)],
               outcome |-> "ok"]
         ELSE LET counted == DecOneCount(v, build)
              IN IF counted.outcome = "panic" THEN counted
                 ELSE [vec |-> [counted.vec EXCEPT
                                   !.blocks[block_index] = BitAndNot(@, mask)],
                       outcome |-> "ok"]

flip_all(v, build) ==
    IF v.len - v.one_count < 0 /\ build = "debug"
    THEN [vec |-> v, outcome |-> "panic"]
    ELSE [vec |-> [v EXCEPT !.one_count = v.len - v.one_count,
                            !.blocks = [i \in DOMAIN @ |-> Not8(@[i])]],
          outcome |-> "ok"]

\* the closures handed to apply
ApplyOps == {"union", "intersection", "difference", "symmetric_difference"}

op_byte(name, x, y) ==
    IF name = "union" THEN BitOr(x, y)
    ELSE IF name = "intersection" THEN BitAnd(x, y)
    ELSE IF name = "difference" THEN BitAnd(x, Not8(y))
    ELSE BitOr(BitAnd(x, Not8(y)), BitAnd(Not8(x), y))

RECURSIVE apply_count(_, _, _)
apply_count(blocks, len, index) ==
    IF index = Len(blocks) THEN 0
    ELSE (IF index = Len(blocks) - 1 /\ len % BLOCK_BIT_COUNT # 0
          THEN byte_count_ones(Shl8(blocks[index + 1],
                                    BLOCK_BIT_COUNT - (len % BLOCK_BIT_COUNT)))
          ELSE byte_count_ones(blocks[index + 1]))
         + apply_count(blocks, len, index + 1)

apply(v, other, name) ==
    IF v.len # other.len \/ Len(v.blocks) # Len(other.blocks)
    THEN [vec |-> v, outcome |-> "panic"]
    ELSE LET blocks == [i \in DOMAIN v.blocks |-> op_byte(name, v.blocks[i], other.blocks[i])]
         IN [vec |-> [v EXCEPT !.blocks = blocks,
                               !.one_count = apply_count(blocks, v.len, 0)],
             outcome |-> "ok"]

truncate(v, len) ==
    IF len < v.len
    THEN clear_extra_bits([v EXCEPT !.len = len,
                                    !.blocks = SubSeq(@, 1, BitVec_get_block_count(len))])
    ELSE v

pop(v, build) ==
    IF v.len = 0 THEN [vec |-> v, outcome |-> "ok"]
    ELSE LET index == v.len - 1
             cleared == BitVec_set(v, index, FALSE, build)
             shorter == [cleared.vec EXCEPT !.len = @ - 1]
         IN IF cleared.outcome = "panic" THEN cleared
            ELSE [vec |-> IF shorter.len % BLOCK_BIT_COUNT = 0
                          THEN [shorter EXCEPT !.blocks = SubSeq(@, 1, Len(@) - 1)]
                          ELSE shorter,
                  outcome |-> "ok"]

push(v, bit, build) ==
    LET grown == IF v.len % BLOCK_BIT_COUNT = 0
                 THEN [v EXCEPT !.blocks = Append(@, 0)]
                 ELSE v
        index == v.len
    IN BitVec_set([grown EXCEPT !.len = @ + 1], index, bit, build)

clone_from(v, source) ==
    [v EXCEPT !.len = source.len, !.blocks = source.blocks]

count_ones(v) == v.one_count

\* len - one_count
count_zeros(v, build) ==
    IF v.len - v.one_count < 0 /\ build = "debug"
    THEN [value |-> 0, outcome |-> "panic"]
    ELSE [value |-> v.len - v.one_count, outcome |-> "ok"]


\* ---- the bit vector as a state machine ----
\* bv       the BitVec
\* bv_last  outcome of the last call ("ok" or "panic"), number of calls made and
\*          the build of the program
BVBytes == {0, 5, 128, 255}

\* the vectors the constructors return
Constructed ==
    {BitVec_new(n) : n \in 0 .. MaxBVLen}
    \cup {BitVec_from_elem(n, bit) : n \in 0 .. MaxBVLen, bit \in BOOLEAN}
    \cup {BitVec_with_capacity(n) : n \in 0 .. MaxBVLen}
    \cup {BitVec_from_bytes(bytes) :
            bytes \in UNION {[1 .. k -> BVBytes] : k \in 0 .. MaxBVLen \div BLOCK_BIT_COUNT}}

\* number of true bits among the positions 0 .. len - 1
TrueBits(v) == Cardinality({i \in 0 .. v.len - 1 : BitVec_get(v, i)})

InitBV ==
    /\ bv \in Constructed
    /\ bv_last \in [outcome : {"ok"}, calls : {0}, build : Builds]
    /\ qf = Absent /\ qf_items = Absent /\ qf_last = Absent
    /\ cf = Absent /\ cf_items = Absent /\ cf_last = Absent
    /\ sv = Absent /\ sv_last = Absent
    /\ hi = Absent
    /\ scf = Absent /\ scf_last = Absent
    /\ sbf = Absent /\ sbf_last = Absent
    /\ by = Absent
    /\ bf = Absent /\ bf_items = Absent /\ bf_last = Absent
    /\ dd = Absent /\ dd_last = Absent
    /\ cms = Absent /\ cms_sums = Absent /\ cms_last = Absent
    /\ hl = Absent /\ hl_last = Absent
    /\ qn = Absent

BVStep(r) ==
    /\ bv' = r.vec
    /\ bv_last' = [bv_last EXCEPT !.outcome = r.outcome, !.calls = @ + 1]
    /\ UNCHANGED <<qf_vars, cf_vars, sv_vars, hi_vars, scf_vars, sbf_vars, by_vars, bf_vars, dd_vars, cms_vars, hl_vars, qn_vars>>

BVReady == bv_last.outcome = "ok" /\ bv_last.calls < MaxBVCalls

BVSet(index, bit) == BVReady /\ BVStep(BitVec_set(bv, index, bit, bv_last.build))

BVFlip(index) == BVReady /\ BVStep(flip(bv, index, bv_last.build))

BVSetAll(bit) == BVReady /\ BVStep([vec |-> set_all(bv, bit), outcome |-> "ok"])

BVFlipAll == BVReady /\ BVStep(flip_all(bv, bv_last.build))

BVApply(name, other) == BVReady /\ BVStep(apply(bv, other, name))

BVTruncate(len) == BVReady /\ BVStep([vec |-> truncate(bv, len), outcome |-> "ok"])

BVPop == BVReady /\ BVStep(pop(bv, bv_last.build))

BVPush(bit) ==
    /\ BVReady
    /\ bv.len < MaxBVLen
    /\ BVStep(push(bv, bit, bv_last.build))

BVCloneFrom(source) ==
    BVReady /\ BVStep([vec |-> clone_from(bv, source), outcome |-> "ok"])

NextBV ==
    \/ \E index \in 0 .. MaxBVLen - 1, bit \in BOOLEAN : BVSet(index, bit)
    \/ \E index \in 0 .. MaxBVLen - 1 : BVFlip(index)
    \/ \E bit \in BOOLEAN : BVSetAll(bit)
    \/ BVFlipAll
    \/ \E name \in ApplyOps, other \in Constructed : BVApply(name, other)
    \/ \E len \in 0 .. MaxBVLen : BVTruncate(len)
    \/ BVPop
    \/ \E bit \in BOOLEAN : BVPush(bit)
    \/ \E source \in Constructed : BVCloneFrom(source)

SpecBV == InitBV /\ [][NextBV]_vars

\* C10: after any sequence of operations count_ones() is the number of true bits
\* among the positions 0 .. len - 1 and count_zeros() is len minus that number.
C10_CountOnesIsPopcount ==
    bv_last.outcome = "ok"
        => /\ count_ones(bv) = TrueBits(bv)
           /\ count_zeros(bv, bv_last.build)
                = [value |-> bv.len - TrueBits(bv), outcome |-> "ok"]


\* the bits of the last block at the positions len and above
ExtraBits(v) ==
    IF v.len % BLOCK_BIT_COUNT = 0 \/ v.blocks = << >> THEN 0
    ELSE Shr(v.blocks[Len(v.blocks)], v.len % BLOCK_BIT_COUNT)

\* C11: after any sequence of operations every bit of the last block at a
\* position >= len is zero.
C11_ExtraBitsZero ==
    bv_last.outcome = "ok" => ExtraBits(bv) = 0


(***************************************************************************)
(* BitstringVec (src/src/bitstring_vec.rs) at the level of its u64 blocks.  *)
(* A u64 is written as the set of the positions of its one bits, so that    *)
(* shifts, masks and the 64-bit width are exact.                            *)
(***************************************************************************)
U64_BIT_COUNT == 64

U64Bits == 0 .. U64_BIT_COUNT - 1

\* (x << n) as u64; without overflow checks a shift by 64 or more is a shift
\* by n % 64 (with them it panics, which the callers check)
Shl64(x, n) ==
    LET m == n % U64_BIT_COUNT
    IN {b + m : b \in {c \in x : c + m < U64_BIT_COUNT}}

\* x >> n on a u64, the shift count taken as for Shl64
Shr64(x, n) ==
    LET m == n % U64_BIT_COUNT
    IN {b - m : b \in {c \in x : c >= m}}

bsv_get_block_count(bit_count, len) ==
    (bit_count * len + U64_BIT_COUNT - 1) \div U64_BIT_COUNT

\* (1u64 << size) - 1, and !0 for size = 64
bsv_get_mask(size) == IF size = 64 THEN U64Bits ELSE 0 .. (size % U64_BIT_COUNT) - 1

bsv_new(bit_count, len) ==
    [blocks |-> [i \in 1 .. bsv_get_block_count(bit_count, len) |-> {}],
     bit_count |-> bit_count,
     occupied_len |-> 0,
     len |-> len]

\* get(index) for index < len; blocks are indexed from 1 here
bsv_get(vec, index) ==
    LET bit_offset == index * vec.bit_count
        table_index == bit_offset \div 64
        bit_index == bit_offset % 64
        bits_left == vec.bit_count - (64 - bit_index)
        low == Shr64(vec.blocks[table_index + 1], bit_index)
                 \cap bsv_get_mask(vec.bit_count)
    IN IF bits_left > 0
       THEN low \cup Shl64(vec.blocks[table_index + 2] \cap bsv_get_mask(bits_left),
                           vec.bit_count - bits_left)
       ELSE low

\* set as it would be without the write to the second block of a slot that
\* straddles two blocks
bsv_set_first_block_only(vec, index, bitstring, build) ==
    IF ~(index < vec.len) THEN [vec |-> vec, outcome |-> "panic"]
    ELSE
      LET bit_offset == index * vec.bit_count
          table_index == bit_offset \div 64
          bit_index == bit_offset % 64
          written == [vec EXCEPT !.blocks[table_index + 1] =
                        (@ \ Shl64(bsv_get_mask(vec.bit_count), bit_index))
                          \cup Shl64(bitstring, bit_index)]
          prev_is_zero == bsv_get(vec, index) = {}
          curr_is_zero == bitstring = {}
      IN IF prev_is_zero = curr_is_zero THEN [vec |-> written, outcome |-> "ok"]
         ELSE IF curr_is_zero
              THEN IF vec.occupied_len = 0 /\ build = "debug"
                   THEN [vec |-> written, outcome |-> "panic"]
                   ELSE [vec |-> [written EXCEPT !.occupied_len = @ - 1],
                         outcome |-> "ok"]
              ELSE [vec |-> [written EXCEPT !.occupied_len = @ + 1], outcome |-> "ok"]

\* set(index, bitstring); occupied_len is a usize: the subtraction panics in a
\* debug build when it is 0 and wraps in a release build (-1 stands for 2^64 - 1)
bsv_set(vec, index, bitstring, build) ==
    IF ~(index < vec.len) THEN [vec |-> vec, outcome |-> "panic"]
    ELSE
      LET prev_is_zero == bsv_get(vec, index) = {}
          bit_offset == index * vec.bit_count
          table_index == bit_offset \div 64
          bit_index == bit_offset % 64
          bits_left == vec.bit_count - (64 - bit_index)
          blocks1 == [vec.blocks EXCEPT ![table_index + 1] =
                        (@ \ Shl64(bsv_get_mask(vec.bit_count), bit_index))
                          \cup Shl64(bitstring, bit_index)]
          blocks2 ==
              IF bits_left > 0
              THEN [blocks1 EXCEPT ![table_index + 2] =
                      (@ \ bsv_get_mask(bits_left))
                        \cup Shr64(bitstring, vec.bit_count - bits_left)]
              ELSE blocks1
          curr_is_zero == bitstring = {}
          written == [vec EXCEPT !.blocks = blocks2]
      IN IF prev_is_zero = curr_is_zero THEN [vec |-> written, outcome |-> "ok"]
         ELSE IF curr_is_zero
              THEN IF vec.occupied_len = 0 /\ build = "debug"
                   THEN [vec |-> written, outcome |-> "panic"]
                   ELSE [vec |-> [written EXCEPT !.occupied_len = @ - 1],
                         outcome |-> "ok"]
              ELSE [vec |-> [written EXCEPT !.occupied_len = @ + 1], outcome |-> "ok"]

bsv_pop(vec, build) ==
    IF vec.len = 0 THEN [vec |-> vec, outcome |-> "panic"]
    ELSE
      LET ret == bsv_get(vec, vec.len - 1)
          new_blocks_len == bsv_get_block_count(vec.bit_count, vec.len - 1)
          popped == [vec EXCEPT !.blocks = SubSeq(@, 1, new_blocks_len),
                                !.len = @ - 1]
      IN IF ret = {} THEN [vec |-> popped, outcome |-> "ok"]
         ELSE IF vec.occupied_len = 0 /\ build = "debug"
              THEN [vec |-> popped, outcome |-> "panic"]
              ELSE [vec |-> [popped EXCEPT !.occupied_len = @ - 1], outcome |-> "ok"]

bsv_push(vec, bitstring, build) ==
    LET new_block_len == bsv_get_block_count(vec.bit_count, vec.len + 1)
        block_len == Len(vec.blocks)
        extended == [vec EXCEPT
                       !.blocks = @ \o [i \in 1 .. new_block_len - block_len |-> {}],
                       !.len = @ + 1]
        r == bsv_set(extended, vec.len, bitstring, build)
    IN IF r.outcome = "panic" THEN r
       ELSE [vec |-> [r.vec EXCEPT !.occupied_len =
                        IF bitstring # {} THEN vec.occupied_len + 1
                        ELSE vec.occupied_len],
             outcome |-> "ok"]

\* while len < self.len { self.pop(); }
RECURSIVE bsv_truncate(_, _, _)
bsv_truncate(vec, len, build) ==
    IF ~(len < vec.len) THEN [vec |-> vec, outcome |-> "ok"]
    ELSE LET r == bsv_pop(vec, build)
         IN IF r.outcome = "panic" THEN r ELSE bsv_truncate(r.vec, len, build)

bsv_clear(vec) ==
    [vec EXCEPT !.occupied_len = 0, !.blocks = [i \in DOMAIN @ |-> {}]]

(***************************************************************************)
(* BitArrayVec (src/src/bit_array_vec.rs): pop, push and truncate.          *)
(***************************************************************************)
\* set(index, bytes) with the assert on the index and the usize subtraction of
\* occupied_len (panic in a debug build, wrap in a release build)
BitArrayVec_set_usize(vec, index, bytes, build) ==
    IF ~(index < vec.len) THEN [vec |-> vec, outcome |-> "panic"]
    ELSE LET written == BitArrayVec_set(vec, index, bytes)
         IN IF written.occupied_len < 0 /\ vec.occupied_len >= 0 /\ build = "debug"
            THEN [vec |-> written, outcome |-> "panic"]
            ELSE [vec |-> written, outcome |-> "ok"]

BitArrayVec_pop(vec, build) ==
    IF vec.len = 0 THEN [vec |-> vec, outcome |-> "panic"]
    ELSE
      LET ret == BitArrayVec_get(vec, vec.len - 1)
          new_blocks_len == BitArrayVec_get_block_count(vec.bit_count, vec.len - 1)
          popped == [vec EXCEPT !.blocks = SubSeq(@, 1, new_blocks_len),
                                !.len = @ - 1]
      IN IF AllZero(ret) THEN [vec |-> popped, outcome |-> "ok"]
         ELSE IF vec.occupied_len = 0 /\ build = "debug"
              THEN [vec |-> popped, outcome |-> "panic"]
              ELSE [vec |-> [popped EXCEPT !.occupied_len = @ - 1], outcome |-> "ok"]

\* the allocation of `blocks` grows when the new length exceeds it
BitArrayVec_push(vec, bytes, build) ==
    LET new_block_len == BitArrayVec_get_block_count(vec.bit_count, vec.len + 1)
        block_len == Len(vec.blocks)
        extended == [vec EXCEPT
                       !.blocks = @ \o [i \in 1 .. new_block_len - block_len |-> 0],
                       !.blocks_capacity = IF new_block_len > @ THEN new_block_len ELSE @,
                       !.len = @ + 1]
        r == BitArrayVec_set_usize(extended, vec.len, bytes, build)
    IN IF r.outcome = "panic" THEN r
       ELSE [vec |-> [r.vec EXCEPT !.occupied_len =
                        IF ~AllZero(bytes) THEN vec.occupied_len + 1
                        ELSE vec.occupied_len],
             outcome |-> "ok"]

RECURSIVE BitArrayVec_truncate(_, _, _)
BitArrayVec_truncate(vec, len, build) ==
    IF ~(len < vec.len) THEN [vec |-> vec, outcome |-> "ok"]
    ELSE LET r == BitArrayVec_pop(vec, build)
         IN IF r.outcome = "panic" THEN r ELSE BitArrayVec_truncate(r.vec, len, build)

\* ---- the slot vectors as a state machine ----
\* sv       the BitstringVec or the BitArrayVec
\* sv_last  which of the two it is, the last call and its outcome, the number of
\*          calls made and the build of the program
MaxSVLen == 3
MaxSVCalls == 3

SVKinds == {"BitstringVec", "BitArrayVec"}

\* slot widths: a slot never straddles (1, 3), straddles two blocks (33, 63),
\* fills a block (64); for the byte blocks 3 and 11
BsvBitCounts == {1, 3, 33, 63, 64}
BavBitCounts == {3, 11}

\* arguments of set and push: u64 values, some with bits at and above bit_count
SVBitstrings(bit_count) ==
    {{}, {0}, {bit_count - 1}, 0 .. bit_count - 1}
        \cup (IF bit_count < 64 THEN {{bit_count}, {0, bit_count}} ELSE {})

\* arguments of set and push: byte slices of (bit_count + 7) / 8 bytes
SVByteValues == {0, 1, 8}
SVBytes(bit_count) == [1 .. (bit_count + 7) \div 8 -> SVByteValues]

SVArgs == IF sv_last.kind = "BitstringVec" THEN SVBitstrings(sv.bit_count)
          ELSE SVBytes(sv.bit_count)

\* the value of slot index as get returns it, and whether it is zero
SVGet(vec, kind, index) ==
    IF kind = "BitstringVec" THEN bsv_get(vec, index) ELSE BitArrayVec_get(vec, index)

SVIsZero(kind, value) == IF kind = "BitstringVec" THEN value = {} ELSE AllZero(value)

\* number of indices below len whose slot is non-zero
SVNonZero(vec, kind) ==
    Cardinality({i \in 0 .. vec.len - 1 : ~SVIsZero(kind, SVGet(vec, kind, i))})

InitSV ==
    /\ sv_last \in [kind : SVKinds, op : {"new"}, outcome : {"ok"}, calls : {0},
                    build : Builds]
    /\ sv \in IF sv_last.kind = "BitstringVec"
              THEN {bsv_new(w, n) : w \in BsvBitCounts, n \in 0 .. MaxSVLen}
              ELSE {BitArrayVec_new(w, n) : w \in BavBitCounts, n \in 0 .. MaxSVLen}
    /\ qf = Absent /\ qf_items = Absent /\ qf_last = Absent
    /\ cf = Absent /\ cf_items = Absent /\ cf_last = Absent
    /\ bv = Absent /\ bv_last = Absent
    /\ hi = Absent
    /\ scf = Absent /\ scf_last = Absent
    /\ sbf = Absent /\ sbf_last = Absent
    /\ by = Absent
    /\ bf = Absent /\ bf_items = Absent /\ bf_last = Absent
    /\ dd = Absent /\ dd_last = Absent
    /\ cms = Absent /\ cms_sums = Absent /\ cms_last = Absent
    /\ hl = Absent /\ hl_last = Absent
    /\ qn = Absent

SVStep(op, r) ==
    /\ sv' = r.vec
    /\ sv_last' = [sv_last EXCEPT !.op = op, !.outcome = r.outcome, !.calls = @ + 1]
    /\ UNCHANGED <<qf_vars, cf_vars, bv_vars, hi_vars, scf_vars, sbf_vars, by_vars, bf_vars, dd_vars, cms_vars, hl_vars, qn_vars>>

SVReady == sv_last.outcome = "ok" /\ sv_last.calls < MaxSVCalls

SVSet(index, value) ==
    /\ SVReady
    /\ value \in SVArgs
    /\ SVStep("set", IF sv_last.kind = "BitstringVec"
                     THEN bsv_set(sv, index, value, sv_last.build)
                     ELSE BitArrayVec_set_usize(sv, index, value, sv_last.build))

SVPush(value) ==
    /\ SVReady
    /\ sv.len < MaxSVLen
    /\ value \in SVArgs
    /\ SVStep("push", IF sv_last.kind = "BitstringVec"
                      THEN bsv_push(sv, value, sv_last.build)
                      ELSE BitArrayVec_push(sv, value, sv_last.build))

SVPop ==
    /\ SVReady
    /\ SVStep("pop", IF sv_last.kind = "BitstringVec"
                     THEN bsv_pop(sv, sv_last.build)
                     ELSE BitArrayVec_pop(sv, sv_last.build))

SVTruncate(len) ==
    /\ SVReady
    /\ SVStep("truncate", IF sv_last.kind = "BitstringVec"
                          THEN bsv_truncate(sv, len, sv_last.build)
                          ELSE BitArrayVec_truncate(sv, len, sv_last.build))

SVClear ==
    /\ SVReady
    /\ SVStep("clear", [vec |-> IF sv_last.kind = "BitstringVec"
                                THEN bsv_clear(sv) ELSE BitArrayVec_clear(sv),
                        outcome |-> "ok"])

NextSV ==
    \/ \E index \in 0 .. MaxSVLen - 1 : \E value \in SVArgs : SVSet(index, value)
    \/ \E value \in SVArgs : SVPush(value)
    \/ SVPop
    \/ \E len \in 0 .. MaxSVLen : SVTruncate(len)
    \/ SVClear

SpecSV == InitSV /\ [][NextSV]_vars

\* C12: after any sequence of set, push, pop, truncate and clear, occupied_len()
\* is the number of indices i < len whose slot value is non-zero.
C12_OccupiedLenIsNonZeroCount ==
    sv_last.outcome = "ok" => sv.occupied_len = SVNonZero(sv, sv_last.kind)


\* C13: BitstringVec: for every slot width, every index i < len and every value
\* v < 2^bit_count, a set(i, v) that returns makes get(i) return v and leaves the
\* value of every other slot unchanged, also when slot i straddles two blocks.
C13_SetGetRoundTrip ==
    [][\A index \in 0 .. MaxSVLen - 1 : \A value \in SVArgs :
         (/\ sv_last.kind = "BitstringVec"
          /\ index < sv.len
          /\ value \subseteq 0 .. sv.bit_count - 1
          /\ sv_last'.op = "set" /\ sv_last'.outcome = "ok"
          /\ SVSet(index, value))
         => (/\ bsv_get(sv', index) = value
             /\ \A j \in 0 .. sv.len - 1 :
                  j # index => bsv_get(sv', j) = bsv_get(sv, j))]_vars

\* a set has written all ones to slot 1 of a vector of 33-bit slots, which lies
\* in the bits 33 .. 65 of two blocks, between two other slots
C13_StraddlingSlotSet ==
    /\ sv_last.kind = "BitstringVec" /\ sv_last.op = "set"
    /\ sv_last.outcome = "ok" /\ sv_last.calls = 1
    /\ sv.bit_count = 33 /\ sv.len = 3
    /\ bsv_get(sv, 1) = 0 .. 32

(***************************************************************************)
(* CuckooFilter: capacity and length.                                      *)
(***************************************************************************)
CuckooFilter_capacity(f) == BitArrayVec_capacity(f.fingerprint_vec)

\* the filter is what from_parameters returns for item_count (and its own
\* fingerprint_bit_count and entries_per_index)
BuiltFor(f, item_count) ==
    f.fingerprint_vec.len
        = from_parameters_with_hashers(item_count, fingerprint_bit_count(f),
                                       f.entries_per_index).fingerprint_vec.len

\* C14: for every accepted parameter combination bucket_len() is the next power
\* of two >= ceil(item_count / entries_per_index), and capacity() is
\* bucket_len() * entries_per_index, the number of slots of the backing store.
C14_BucketLenAndCapacity ==
    \A item_count \in 1 .. MaxItemCount :
        BuiltFor(cf, item_count)
            => /\ bucket_len(cf)
                    = next_power_of_two((item_count + cf.entries_per_index - 1)
                                            \div cf.entries_per_index)
               /\ CuckooFilter_capacity(cf) = bucket_len(cf) * cf.entries_per_index
               /\ CuckooFilter_capacity(cf) = cf.fingerprint_vec.len

(***************************************************************************)
(* HashIter (src/src/util.rs).  A u64 is written as its four 16-bit limbs,  *)
(* least significant first, so that additions wrap at 2^64 exactly.        *)
(***************************************************************************)
LIMB == 65536

\* the u64 of a small non-negative integer
U64(n) == <<n % LIMB, (n \div LIMB) % LIMB, 0, 0>>

U64_MAX == <<LIMB - 1, LIMB - 1, LIMB - 1, LIMB - 1>>

\* u64::wrapping_add: the carry out of the last limb is dropped
wrapping_add(x, y) ==
    LET s1 == x[1] + y[1]
        s2 == x[2] + y[2] + s1 \div LIMB
        s3 == x[3] + y[3] + s2 \div LIMB
        s4 == x[4] + y[4] + s3 \div LIMB
    IN <<s1 % LIMB, s2 % LIMB, s3 % LIMB, s4 % LIMB>>

\* (i * b) mod 2^64
RECURSIVE wrapping_mul(_, _)
wrapping_mul(i, b) == IF i = 0 THEN U64(0) ELSE wrapping_add(wrapping_mul(i - 1, b), b)

\* HashIter::next as it would be if b were never advanced by c
HashIter_next_without_c(it) ==
    [ret |-> it.a,
     iter |-> [a |-> wrapping_add(it.a, it.b), b |-> it.b, c |-> it.c + 1]]

\* HashIter::next: the value returned and the iterator after the call
HashIter_next(it) ==
    [ret |-> it.a,
     iter |-> [a |-> wrapping_add(it.a, it.b),
               b |-> wrapping_add(it.b, U64(it.c)),
               c |-> it.c + 1]]

\* DoubleHasher::hash: the iterator of an item with the hashes a and b
DoubleHasher_hash(a, b) == [a |-> a, b |-> b, c |-> 0]

\* ---- the hash iterator as a state machine ----
\* hi  the iterator (iter), the two hashes it was made from (a, b), the number
\*     of values it has yielded (count) and the value yielded last (ret)
MaxHashIterCalls == 6

\* hashes of items: small values and values whose sums pass 2^64
ItemHashes ==
    {U64(0), U64(1), U64(5), <<0, 0, 0, LIMB \div 2>>,
     <<LIMB - 1, LIMB - 1, 0, 0>>, <<LIMB - 3, LIMB - 1, LIMB - 1, LIMB - 1>>, U64_MAX}

InitHI ==
    /\ hi \in {[iter |-> DoubleHasher_hash(a, b), a |-> a, b |-> b,
                count |-> 0, ret |-> U64(0)] : a \in ItemHashes, b \in ItemHashes}
    /\ qf = Absent /\ qf_items = Absent /\ qf_last = Absent
    /\ cf = Absent /\ cf_items = Absent /\ cf_last = Absent
    /\ bv = Absent /\ bv_last = Absent
    /\ sv = Absent /\ sv_last = Absent
    /\ scf = Absent /\ scf_last = Absent
    /\ sbf = Absent /\ sbf_last = Absent
    /\ by = Absent
    /\ bf = Absent /\ bf_items = Absent /\ bf_last = Absent
    /\ dd = Absent /\ dd_last = Absent
    /\ cms = Absent /\ cms_sums = Absent /\ cms_last = Absent
    /\ hl = Absent /\ hl_last = Absent
    /\ qn = Absent

HINext ==
    /\ hi.count < MaxHashIterCalls
    /\ LET r == HashIter_next(hi.iter)
       IN hi' = [hi EXCEPT !.iter = r.iter, !.ret = r.ret, !.count = @ + 1]
    /\ UNCHANGED <<qf_vars, cf_vars, bv_vars, sv_vars, scf_vars, sbf_vars, by_vars, bf_vars, dd_vars, cms_vars, hl_vars, qn_vars>>

\* hash is called again for the same item: the sequence restarts
HIHash ==
    /\ hi.count > 0
    /\ hi' = [hi EXCEPT !.iter = DoubleHasher_hash(hi.a, hi.b), !.count = 0,
                        !.ret = U64(0)]
    /\ UNCHANGED <<qf_vars, cf_vars, bv_vars, sv_vars, scf_vars, sbf_vars, by_vars, bf_vars, dd_vars, cms_vars, hl_vars, qn_vars>>

NextHI == HINext \/ HIHash

SpecHI == InitHI /\ [][NextHI]_vars

\* C15: for every pair of 64-bit hashes (a, b) and every i >= 0 the i-th value
\* the iterator yields (0-based) is (a + i * b) mod 2^64.
C15_LinearSequence ==
    hi.count > 0 => hi.ret = wrapping_add(hi.a, wrapping_mul(hi.count - 1, hi.b))

\* C15 as amended: the i-th value the iterator yields is
\* (a + i * b + i * (i - 1) * (i - 2) / 6) mod 2^64.
C15_EnhancedSequence ==
    hi.count > 0
        => LET i == hi.count - 1
           IN hi.ret = wrapping_add(wrapping_add(hi.a, wrapping_mul(i, hi.b)),
                                    U64((i * (i - 1) * (i - 2)) \div 6))

\* the sixth value of an iterator whose sums wrapped around 2^64
C15_WrappedSixthValue ==
    /\ hi.count = 6 /\ hi.a = U64_MAX /\ hi.b = U64_MAX
    /\ hi.ret = U64(4)

(***************************************************************************)
(* ScalableCuckooFilter (src/src/cuckoo/scalable_cuckoo_filter.rs).         *)
(* The f64 parameters are kept as exact fractions [num, den]; the values    *)
(* used are sums of few powers of two, which f64 holds exactly.             *)
(***************************************************************************)
RECURSIVE IPow(_, _)
IPow(x, k) == IF k = 0 THEN 1 ELSE x * IPow(x, k - 1)

\* power.log2().ceil() for power = 2 / (1 - (1 - fpp)^(1 / (2 e))): the least n
\* with 2^n >= power, that is with 1 - fpp <= (1 - 2^(1 - n))^(2 e)
RECURSIVE fingerprint_bit_count_from(_, _, _)
fingerprint_bit_count_from(fpp, entries_per_index, n) ==
    IF (fpp.den - fpp.num) * IPow(Pow2(n - 1), 2 * entries_per_index)
          <= fpp.den * IPow(Pow2(n - 1) - 1, 2 * entries_per_index)
    THEN n
    ELSE fingerprint_bit_count_from(fpp, entries_per_index, n + 1)

\* CuckooFilter::from_entries_per_index_with_hashers; "panic" when an assert fails
from_entries_per_index_with_hashers(item_count, fpp, entries_per_index) ==
    IF ~(item_count > 0 /\ entries_per_index > 0) THEN "panic"
    ELSE
      LET fingerprint_bits == fingerprint_bit_count_from(fpp, entries_per_index, 1)
          exact_bucket_len == (item_count + entries_per_index - 1) \div entries_per_index
          bucket_count == next_power_of_two(exact_bucket_len)
      IN [max_kicks |-> DEFAULT_MAX_KICKS,
          entries_per_index |-> entries_per_index,
          fingerprint_vec |-> BitArrayVec_new(fingerprint_bits,
                                              bucket_count * entries_per_index),
          extra_items |-> << >>]

ScalableCuckooFilter_from_entries_per_index(item_count, fpp, entries_per_index, growth_ratio, tightening_ratio) ==
    [filters |-> <<from_entries_per_index_with_hashers(item_count, fpp,
                                                       entries_per_index)>>,
     initial_item_count |-> item_count,
     initial_fpp |-> fpp,
     growth_ratio |-> growth_ratio,
     tightening_ratio |-> tightening_ratio]

\* the last filter is nearly full or its len() equals its capacity()
GrowthTrigger(filter) ==
    is_nearly_full(filter) \/ CuckooFilter_len(filter) = CuckooFilter_capacity(filter)

\* try_grow as it would be without the test of is_nearly_full
ScalableCuckooFilter_try_grow_on_len_only(s) ==
    LET exponent == Len(s.filters)
        filter == s.filters[Len(s.filters)]
    IN IF CuckooFilter_len(filter) = CuckooFilter_capacity(filter)
       THEN [s EXCEPT !.filters = Append(@,
                from_entries_per_index_with_hashers(
                    (CuckooFilter_capacity(filter) * s.growth_ratio.num
                        + s.growth_ratio.den - 1) \div s.growth_ratio.den,
                    [num |-> s.initial_fpp.num * IPow(s.tightening_ratio.num, exponent),
                     den |-> s.initial_fpp.den * IPow(s.tightening_ratio.den, exponent)],
                    filter.entries_per_index))]
       ELSE s

ScalableCuckooFilter_try_grow(s) ==
    LET exponent == Len(s.filters)
        filter == s.filters[Len(s.filters)]
    IN IF GrowthTrigger(filter)
       THEN [s EXCEPT !.filters = Append(@,
                from_entries_per_index_with_hashers(
                    (CuckooFilter_capacity(filter) * s.growth_ratio.num
                        + s.growth_ratio.den - 1) \div s.growth_ratio.den,
                    [num |-> s.initial_fpp.num * IPow(s.tightening_ratio.num, exponent),
                     den |-> s.initial_fpp.den * IPow(s.tightening_ratio.den, exponent)],
                    filter.entries_per_index))]
       ELSE s

\* self.filters.iter().any(|filter| filter.contains(item)), from filter i on:
\* "true", "false" or "panic"
RECURSIVE ScalableCuckooFilter_contains_from(_, _, _)
ScalableCuckooFilter_contains_from(s, item, i) ==
    IF i > Len(s.filters) THEN "false"
    ELSE LET c == CuckooFilter_contains(s.filters[i], item)
         IN IF c = "false" THEN ScalableCuckooFilter_contains_from(s, item, i + 1)
            ELSE c

ScalableCuckooFilter_contains(s, item) == ScalableCuckooFilter_contains_from(s, item, 1)

\* the set of results [scf, outcome] of insert, one for each run of the kicks
ScalableCuckooFilter_insert(s, item) ==
    LET c == ScalableCuckooFilter_contains(s, item)
    IN IF c = "panic" THEN {[scf |-> s, outcome |-> "panic"]}
       ELSE IF c = "true" THEN {[scf |-> ScalableCuckooFilter_try_grow(s), outcome |-> "ok"]}
       ELSE {IF r.outcome = "panic" THEN [scf |-> s, outcome |-> "panic"]
             ELSE [scf |-> ScalableCuckooFilter_try_grow(
                              [s EXCEPT !.filters[Len(s.filters)] = r.filter]),
                   outcome |-> "ok"]
               : r \in CuckooFilter_insert(s.filters[Len(s.filters)], item)}

\* for filter in &mut self.filters { filter.remove(item); }, from filter i on
RECURSIVE ScalableCuckooFilter_remove_from(_, _, _)
ScalableCuckooFilter_remove_from(s, item, i) ==
    IF i > Len(s.filters) THEN [scf |-> s, outcome |-> "ok"]
    ELSE LET r == CuckooFilter_remove(s.filters[i], item)
         IN IF r.outcome = "panic" THEN [scf |-> s, outcome |-> "panic"]
            ELSE ScalableCuckooFilter_remove_from(
                     [s EXCEPT !.filters[i] = r.filter], item, i + 1)

ScalableCuckooFilter_remove(s, item) == ScalableCuckooFilter_remove_from(s, item, 1)

RECURSIVE ScalableCuckooFilter_len_from(_, _)
ScalableCuckooFilter_len_from(s, i) ==
    IF i > Len(s.filters) THEN 0
    ELSE CuckooFilter_len(s.filters[i]) + extra_items_len(s.filters[i])
           + ScalableCuckooFilter_len_from(s, i + 1)

ScalableCuckooFilter_len(s) == ScalableCuckooFilter_len_from(s, 1)

filter_count(s) == Len(s.filters)

ScalableCuckooFilter_clear(s) ==
    [s EXCEPT !.filters =
        <<from_entries_per_index_with_hashers(s.initial_item_count, s.initial_fpp,
                                              s.filters[1].entries_per_index)>>]

\* ---- the scalable cuckoo filter as a state machine ----
\* scf       the ScalableCuckooFilter
\* scf_last  the last call ("new", "insert", "remove", "clear"), its outcome
\*           ("ok" or "panic") and the number of calls made
MaxSCFItemCount == 3
MaxSCFCalls == 5

\* items by their two hashes: 1 and 257 share their low 3 and their low 8 bits,
\* 3 and 11 are the same bucket of 8 and different buckets of 3
SCFItems ==
    {[h0 |-> 1, h1 |-> 3], [h0 |-> 2, h1 |-> 1], [h0 |-> 4, h1 |-> 1],
     [h0 |-> 4, h1 |-> 3], [h0 |-> 4, h1 |-> 11], [h0 |-> 7, h1 |-> 1],
     [h0 |-> 13, h1 |-> 1], [h0 |-> 257, h1 |-> 3]}

\* (fpp, entries_per_index): fingerprints of 8 bits and more, of 5 bits, and
\* of 3 and 4 bits
SCFParameters ==
    {<<[num |-> 1, den |-> 64], 1>>, <<[num |-> 1, den |-> 8], 1>>,
     <<[num |-> 1, den |-> 2], 1>>, <<[num |-> 1, den |-> 2], 2>>}

\* growth_ratio 2.0 and 1.5, tightening_ratio 0.5
SCFGrowthRatios == {[num |-> 2, den |-> 1], [num |-> 3, den |-> 2]}
SCFTighteningRatios == {[num |-> 1, den |-> 2]}

\* the value of scf_last and of sbf_last in a program that did not build that stack
NotBuilt == [op |-> "absent", outcome |-> "absent", calls |-> 0]

InitSCF ==
    /\ scf \in {ScalableCuckooFilter_from_entries_per_index(
                    item_count, p[1], p[2], growth_ratio, tightening_ratio) :
                  item_count \in 1 .. MaxSCFItemCount, p \in SCFParameters,
                  growth_ratio \in SCFGrowthRatios,
                  tightening_ratio \in SCFTighteningRatios}
    /\ scf_last = [op |-> "new", outcome |-> "ok", calls |-> 0]
    /\ qf = Absent /\ qf_items = Absent /\ qf_last = Absent
    /\ cf = Absent /\ cf_items = Absent /\ cf_last = Absent
    /\ bv = Absent /\ bv_last = Absent
    /\ sv = Absent /\ sv_last = Absent
    /\ hi = Absent
    /\ sbf = Absent /\ sbf_last = NotBuilt
    /\ by = Absent
    /\ bf = Absent /\ bf_items = Absent /\ bf_last = Absent
    /\ dd = Absent /\ dd_last = Absent
    /\ cms = Absent /\ cms_sums = Absent /\ cms_last = Absent
    /\ hl = Absent /\ hl_last = Absent
    /\ qn = Absent

SCFStep(op, r) ==
    /\ scf' = r.scf
    /\ scf_last' = [op |-> op, outcome |-> r.outcome, calls |-> scf_last.calls + 1]
    /\ UNCHANGED <<qf_vars, cf_vars, bv_vars, sv_vars, hi_vars, sbf_vars, by_vars, bf_vars, dd_vars, cms_vars, hl_vars, qn_vars>>

SCFReady == scf_last.outcome = "ok" /\ scf_last.calls < MaxSCFCalls

SCFInsert(x) ==
    /\ SCFReady
    /\ \E r \in ScalableCuckooFilter_insert(scf, x) : SCFStep("insert", r)

SCFRemove(x) == SCFReady /\ SCFStep("remove", ScalableCuckooFilter_remove(scf, x))

SCFClear ==
    SCFReady /\ SCFStep("clear", [scf |-> ScalableCuckooFilter_clear(scf), outcome |-> "ok"])

NextSCF ==
    \/ \E x \in SCFItems : SCFInsert(x)
    \/ \E x \in SCFItems : SCFRemove(x)
    \/ SCFClear

SpecSCF == InitSCF /\ [][NextSCF]_vars

\* C16: an insert that returns appends exactly one new empty filter if and only
\* if the filter that was last is then nearly full or has len() = capacity();
\* hence after it the last filter has no overflow items and len() < capacity().
C16_GrowthAtEndOfInsert ==
    [][(scf_last'.op = "insert" /\ scf_last'.outcome = "ok")
        => LET n == filter_count(scf)
               last == scf'.filters[filter_count(scf')]
           IN /\ filter_count(scf') \in {n, n + 1}
              /\ filter_count(scf') = n + 1
                   <=> GrowthTrigger(scf'.filters[n])
              /\ filter_count(scf') = n + 1
                   => CuckooFilter_len(last) = 0 /\ extra_items_len(last) = 0
              /\ ~is_nearly_full(last)
              /\ CuckooFilter_len(last) < CuckooFilter_capacity(last)]_vars

\* an insert has overflowed the second filter and appended a third one
C16_GrownAfterOverflow ==
    /\ scf_last.op = "insert" /\ scf_last.outcome = "ok"
    /\ filter_count(scf) = 3
    /\ is_nearly_full(scf.filters[2])

\* C17: len() grows by exactly 1 on every insert of an item that contains() did
\* not report, and shrinks by exactly 1 on every remove of an item that
\* contains() reported, after which contains() of that item is false.
C17_LenFollowsInsertAndRemove ==
    [][\A x \in SCFItems :
         /\ (/\ scf_last'.op = "insert" /\ scf_last'.outcome = "ok"
             /\ ScalableCuckooFilter_contains(scf, x) = "false"
             /\ SCFInsert(x))
            => ScalableCuckooFilter_len(scf') = ScalableCuckooFilter_len(scf) + 1
         /\ (/\ scf_last'.op = "remove" /\ scf_last'.outcome = "ok"
             /\ ScalableCuckooFilter_contains(scf, x) = "true"
             /\ SCFRemove(x))
            => /\ ScalableCuckooFilter_len(scf') = ScalableCuckooFilter_len(scf) - 1
               /\ ScalableCuckooFilter_contains(scf', x) = "false"]_vars

(***************************************************************************)
(* ScalableBloomFilter (src/src/bloom/scalable_bloom_filter.rs) over the   *)
(* classic Bloom filter: a bit vector of m bits and k hash positions per   *)
(* item.  An item is the pair (a, b) of its two 64-bit hashes.             *)
(***************************************************************************)
\* 2f64.ln() as a fraction
LN_2 == [num |-> 693147, den |-> 1000000]

\* -fpp.log2() for a probability 2^-j
neg_log2(fpp) == CHOOSE j \in 0 .. 30 : fpp.den = fpp.num * Pow2(j)

\* ceil(num / den) for positive integers
CeilDiv(num, den) == (num + den - 1) \div den

\* get_hasher_count: ceil(bit_count / item_count * ln 2)
get_hasher_count(bit_count, item_count) ==
    CeilDiv(bit_count * LN_2.num, item_count * LN_2.den)

\* from_fpp: item_count = -floor(ln 2 * bit_count / log2(fpp))
BloomFilter_from_fpp(bit_count, fpp) ==
    LET item_count == CeilDiv(LN_2.num * bit_count, LN_2.den * neg_log2(fpp))
    IN [bit_vec |-> BitVec_new(bit_count),
        hasher_count |-> get_hasher_count(bit_count, item_count)]

\* hash % len for a u64 hash and a length below 2^15
U64Mod(hash, len) ==
    LET r4 == hash[4] % len
        r3 == (r4 * LIMB + hash[3]) % len
        r2 == (r3 * LIMB + hash[2]) % len
    IN (r2 * LIMB + hash[1]) % len

\* the bit indexes of the first k values of the hash iterator
RECURSIVE BloomFilter_offsets(_, _, _)
BloomFilter_offsets(iter, k, len) ==
    IF k = 0 THEN {}
    ELSE LET r == HashIter_next(iter)
         IN {U64Mod(r.ret, len)} \cup BloomFilter_offsets(r.iter, k - 1, len)

BloomFilter_item_offsets(filter, item) ==
    BloomFilter_offsets(DoubleHasher_hash(item.a, item.b), filter.hasher_count,
                        filter.bit_vec.len)

RECURSIVE BitVec_set_each(_, _)
BitVec_set_each(v, offsets) ==
    IF offsets = {} THEN v
    ELSE LET offset == CHOOSE o \in offsets : TRUE
         IN BitVec_set_each(BitVec_set(v, offset, TRUE, "release").vec,
                            offsets \ {offset})

BloomFilter_insert(filter, item) ==
    [filter EXCEPT !.bit_vec = BitVec_set_each(@, BloomFilter_item_offsets(filter, item))]

BloomFilter_contains(filter, item) ==
    \A offset \in BloomFilter_item_offsets(filter, item) :
        BitVec_get(filter.bit_vec, offset)

BloomFilter_len(filter) == filter.bit_vec.len

BloomFilter_count_ones(filter) == count_ones(filter.bit_vec)

\* num / den raised to the power n
FracPow(r, n) == [num |-> IPow(r.num, n), den |-> IPow(r.den, n)]

FracMul(x, y) == [num |-> x.num * y.num, den |-> x.den * y.den]

ScalableBloomFilter_with_hashers(initial_bit_count, fpp, growth_ratio, tightening_ratio) ==
    [filters |-> <<BloomFilter_from_fpp(initial_bit_count, fpp)>>,
     approximate_bits_used |-> 0,
     initial_fpp |-> fpp,
     growth_ratio |-> growth_ratio,
     tightening_ratio |-> tightening_ratio]

\* try_grow as it would be if the approximate counter alone decided
ScalableBloomFilter_try_grow_on_estimate(s) ==
    LET filter == s.filters[Len(s.filters)]
    IN IF s.approximate_bits_used * 2 >= BloomFilter_len(filter)
       THEN LET exponent == Len(s.filters)
            IN [s EXCEPT
                  !.filters = Append(@, BloomFilter_from_fpp(
                      CeilDiv(BloomFilter_len(filter) * s.growth_ratio.num,
                              s.growth_ratio.den),
                      FracMul(s.initial_fpp, FracPow(s.tightening_ratio, exponent)))),
                  !.approximate_bits_used = 0]
       ELSE s

ScalableBloomFilter_try_grow(s) ==
    LET filter == s.filters[Len(s.filters)]
    IN IF s.approximate_bits_used * 2 >= BloomFilter_len(filter)
       THEN LET ones == BloomFilter_count_ones(filter)
            IN IF ones * 2 >= BloomFilter_len(filter)
               THEN LET exponent == Len(s.filters)
                    IN [s EXCEPT
                          !.filters = Append(@, BloomFilter_from_fpp(
                              CeilDiv(BloomFilter_len(filter) * s.growth_ratio.num,
                                      s.growth_ratio.den),
                              FracMul(s.initial_fpp,
                                      FracPow(s.tightening_ratio, exponent)))),
                          !.approximate_bits_used = 0]
               ELSE [s EXCEPT !.approximate_bits_used = ones]
       ELSE s

ScalableBloomFilter_contains(s, item) ==
    \E i \in 1 .. Len(s.filters) : BloomFilter_contains(s.filters[i], item)

\* insert up to the call of try_grow, without the addition to the counter
ScalableBloomFilter_insert_uncounted(s, item) ==
    IF ~ScalableBloomFilter_contains(s, item)
    THEN [s EXCEPT !.filters[Len(s.filters)] = BloomFilter_insert(@, item)]
    ELSE s

\* insert up to the call of try_grow
ScalableBloomFilter_insert_before_grow(s, item) ==
    IF ~ScalableBloomFilter_contains(s, item)
    THEN LET n == Len(s.filters)
         IN [s EXCEPT !.filters[n] = BloomFilter_insert(@, item),
                      !.approximate_bits_used = @ + s.filters[n].hasher_count]
    ELSE s

ScalableBloomFilter_insert(s, item) ==
    ScalableBloomFilter_try_grow(ScalableBloomFilter_insert_before_grow(s, item))

RECURSIVE ScalableBloomFilter_len_from(_, _)
ScalableBloomFilter_len_from(s, i) ==
    IF i > Len(s.filters) THEN 0
    ELSE BloomFilter_len(s.filters[i]) + ScalableBloomFilter_len_from(s, i + 1)

ScalableBloomFilter_len(s) == ScalableBloomFilter_len_from(s, 1)

ScalableBloomFilter_filter_count(s) == Len(s.filters)

ScalableBloomFilter_clear(s) ==
    [s EXCEPT !.filters = <<BloomFilter_from_fpp(BloomFilter_len(s.filters[1]),
                                                  s.initial_fpp)>>,
              !.approximate_bits_used = 0]

\* ---- the scalable Bloom filter as a state machine ----
\* sbf       the ScalableBloomFilter
\* sbf_last  the last call: its name (op), whether it returned (outcome) and
\*           the number of calls so far (calls)
MaxSBFBitCount == 3
MaxSBFCalls == 5

\* items by their two hashes; the last one makes the hash iterator wrap
SBFItems ==
    {[a |-> U64(a), b |-> U64(b)] : a \in {0, 1, 5}, b \in {0, 1, 3}}
        \cup {[a |-> U64_MAX, b |-> U64_MAX]}

\* fpp 0.5 and 0.25, growth_ratio 2.0 and 1.5, tightening_ratio 0.5
SBFFpps == {[num |-> 1, den |-> 2], [num |-> 1, den |-> 4]}
SBFGrowthRatios == {[num |-> 2, den |-> 1], [num |-> 3, den |-> 2]}
SBFTighteningRatios == {[num |-> 1, den |-> 2]}

InitSBF ==
    /\ sbf \in {ScalableBloomFilter_with_hashers(
                    initial_bit_count, fpp, growth_ratio, tightening_ratio) :
                  initial_bit_count \in 1 .. MaxSBFBitCount, fpp \in SBFFpps,
                  growth_ratio \in SBFGrowthRatios,
                  tightening_ratio \in SBFTighteningRatios}
    /\ sbf_last = [op |-> "new", outcome |-> "ok", calls |-> 0]
    /\ qf = Absent /\ qf_items = Absent /\ qf_last = Absent
    /\ cf = Absent /\ cf_items = Absent /\ cf_last = Absent
    /\ bv = Absent /\ bv_last = Absent
    /\ sv = Absent /\ sv_last = Absent
    /\ hi = Absent
    /\ scf = Absent /\ scf_last = NotBuilt
    /\ by = Absent
    /\ bf = Absent /\ bf_items = Absent /\ bf_last = Absent
    /\ dd = Absent /\ dd_last = Absent
    /\ cms = Absent /\ cms_sums = Absent /\ cms_last = Absent
    /\ hl = Absent /\ hl_last = Absent
    /\ qn = Absent

SBFStep(op, s) ==
    /\ sbf' = s
    /\ sbf_last' = [op |-> op, outcome |-> "ok", calls |-> sbf_last.calls + 1]
    /\ UNCHANGED <<qf_vars, cf_vars, bv_vars, sv_vars, hi_vars, scf_vars, by_vars, bf_vars, dd_vars, cms_vars, hl_vars, qn_vars>>

SBFReady == sbf_last.outcome = "ok" /\ sbf_last.calls < MaxSBFCalls

SBFInsert(x) == SBFReady /\ SBFStep("insert", ScalableBloomFilter_insert(sbf, x))

SBFClear == SBFReady /\ SBFStep("clear", ScalableBloomFilter_clear(sbf))

NextSBF ==
    \/ \E x \in SBFItems : SBFInsert(x)
    \/ SBFClear

SpecSBF == InitSBF /\ [][NextSBF]_vars

InitScalable == InitSCF \/ InitSBF

NextScalable == NextSCF \/ NextSBF

SpecScalable == InitScalable /\ [][NextScalable]_vars

\* C18: in every reachable state of a ScalableCuckooFilter and of a
\* ScalableBloomFilter, contains(x) is true exactly when at least one filter
\* of the stack reports x.
C18_ContainsIsAnyFilter ==
    /\ scf_last.op # "absent" =>
         \A x \in SCFItems :
             ScalableCuckooFilter_contains(scf, x) = "true"
               <=> \E i \in 1 .. filter_count(scf) :
                       CuckooFilter_contains(scf.filters[i], x) = "true"
    /\ sbf_last.op # "absent" =>
         \A x \in SBFItems :
             ScalableBloomFilter_contains(sbf, x)
               <=> \E i \in 1 .. ScalableBloomFilter_filter_count(sbf) :
                       BloomFilter_contains(sbf.filters[i], x)

\* C20: after n inserts of items with pairwise distinct (fingerprint, bucket
\* pair), and no other call, len() = n, also when some of the items went to
\* the extra-items vector.
C20_LenCountsExtraItems ==
    (/\ cf_last.outcome = "ok"
     /\ Cardinality(cf_items) = cf_last.calls
     /\ \A x \in cf_items : \A y \in cf_items \ {x} :
            ~SameFingerprintAndBuckets(cf, x, y))
      => CuckooFilter_len(cf) = Cardinality(cf_items)

(***************************************************************************)
(* BitVec::from_bytes and BitVec::to_bytes (src/src/bit_vec.rs) applied to *)
(* a byte sequence.                                                        *)
(***************************************************************************)
\* by  the byte sequence given (bytes), the vector from_bytes made of it
\*     (vec), the bytes to_bytes returned (out) and the last call (op)
MaxBytesLen == 3

\* every sequence of at most one byte, and longer ones over a few bytes
ByteSeqs ==
    [1 .. 0 -> 0 .. 255] \cup [1 .. 1 -> 0 .. 255]
      \cup UNION {[1 .. k -> {0, 1, 128, 208, 255}] : k \in 2 .. MaxBytesLen}

InitBY ==
    /\ by \in {[bytes |-> b, vec |-> BitVec_new(0), out |-> << >>, op |-> "new"] :
                 b \in ByteSeqs}
    /\ qf = Absent /\ qf_items = Absent /\ qf_last = Absent
    /\ cf = Absent /\ cf_items = Absent /\ cf_last = Absent
    /\ bv = Absent /\ bv_last = Absent
    /\ sv = Absent /\ sv_last = Absent
    /\ hi = Absent
    /\ scf = Absent /\ scf_last = Absent
    /\ sbf = Absent /\ sbf_last = Absent
    /\ bf = Absent /\ bf_items = Absent /\ bf_last = Absent
    /\ dd = Absent /\ dd_last = Absent
    /\ cms = Absent /\ cms_sums = Absent /\ cms_last = Absent
    /\ hl = Absent /\ hl_last = Absent
    /\ qn = Absent

BYFromBytes ==
    /\ by.op = "new"
    /\ by' = [by EXCEPT !.vec = BitVec_from_bytes(by.bytes), !.op = "from_bytes"]
    /\ UNCHANGED <<qf_vars, cf_vars, bv_vars, sv_vars, hi_vars, scf_vars, sbf_vars, bf_vars, dd_vars, cms_vars, hl_vars, qn_vars>>

BYToBytes ==
    /\ by.op = "from_bytes"
    /\ by' = [by EXCEPT !.out = to_bytes(by.vec), !.op = "to_bytes"]
    /\ UNCHANGED <<qf_vars, cf_vars, bv_vars, sv_vars, hi_vars, scf_vars, sbf_vars, bf_vars, dd_vars, cms_vars, hl_vars, qn_vars>>

NextBY == BYFromBytes \/ BYToBytes

SpecBY == InitBY /\ [][NextBY]_vars

\* C21: from_bytes places bit (7 - j) of byte k at position 8k + j of the
\* vector, and to_bytes gives the bytes back: to_bytes(from_bytes(b)) = b.
C21_ByteLayoutRoundTrip ==
    /\ by.op # "new" =>
         /\ by.vec.len = BLOCK_BIT_COUNT * Len(by.bytes)
         /\ \A k \in 0 .. Len(by.bytes) - 1 : \A j \in 0 .. BLOCK_BIT_COUNT - 1 :
                BitVec_get(by.vec, BLOCK_BIT_COUNT * k + j)
                  <=> (by.bytes[k + 1] \div Pow2(BLOCK_BIT_COUNT - 1 - j)) % 2 = 1
    /\ by.op = "to_bytes" => by.out = by.bytes

\* 0b11010000 followed by another byte has gone through from_bytes and to_bytes
C21_TwoBytesRoundTripped ==
    /\ by.op = "to_bytes"
    /\ Len(by.bytes) = 2 /\ by.bytes[1] = 208 /\ by.bytes[2] = 1
    /\ BitVec_get(by.vec, 0) /\ BitVec_get(by.vec, 1) /\ ~BitVec_get(by.vec, 2)
    /\ BitVec_get(by.vec, 15)

(***************************************************************************)
(* BloomFilter (src/src/bloom/bloom_filter.rs): a bit vector and           *)
(* hasher_count positions per item.  An item is the pair (a, b) of its two *)
(* 64-bit hashes.                                                          *)
(***************************************************************************)
\* x % 0xFFFF_FFFF_FFFF_FFC5 for a u64 x, the modulus being 2^64 - 59
mod_FFC5(x) ==
    IF x[4] = LIMB - 1 /\ x[3] = LIMB - 1 /\ x[2] = LIMB - 1 /\ x[1] >= LIMB - 59
    THEN U64(x[1] - (LIMB - 59))
    ELSE x

\* the bit index of the hash function number index
get_offset(filter, hashes, index) ==
    U64Mod(wrapping_add(hashes.a, mod_FFC5(wrapping_mul(index, hashes.b))),
           filter.bit_vec.len)

\* new: bit_count = ceil(-log2(fpp) * item_count / ln 2)
bloom_filter_new(item_count, fpp) ==
    LET bit_count == CeilDiv(neg_log2(fpp) * item_count * LN_2.den, LN_2.num)
    IN [bit_vec |-> BitVec_new(bit_count),
        hasher_count |-> get_hasher_count(bit_count, item_count)]

\* the loop of insert from the hash function number index on
RECURSIVE bloom_filter_insert_from(_, _, _)
bloom_filter_insert_from(filter, hashes, index) ==
    IF index >= filter.hasher_count THEN filter
    ELSE bloom_filter_insert_from(
             [filter EXCEPT !.bit_vec =
                 BitVec_set(@, get_offset(filter, hashes, index), TRUE, "release").vec],
             hashes, index + 1)

\* insert as it would be if only the first position were set
bloom_filter_insert_first_only(filter, hashes) ==
    [filter EXCEPT !.bit_vec =
        BitVec_set(@, get_offset(filter, hashes, 0), TRUE, "release").vec]

bloom_filter_insert(filter, hashes) == bloom_filter_insert_from(filter, hashes, 0)

bloom_filter_contains(filter, hashes) ==
    \A index \in 0 .. filter.hasher_count - 1 :
        BitVec_get(filter.bit_vec, get_offset(filter, hashes, index))

bloom_filter_clear(filter) == [filter EXCEPT !.bit_vec = set_all(@, FALSE)]

\* ---- the Bloom filter as a state machine ----
\* bf        the BloomFilter
\* bf_items  the items inserted since the last clear
\* bf_last   the last call (op) and the number of calls so far (calls)
MaxBFItemCount == 3
MaxBFCalls == 4

\* fpp 0.5, 0.25 and 0.125
BFFpps == {[num |-> 1, den |-> 2], [num |-> 1, den |-> 4], [num |-> 1, den |-> 8]}

\* items by their two hashes; with the large ones the sums and products wrap
BFItems ==
    {[a |-> U64(a), b |-> U64(b)] : a \in {0, 1, 5}, b \in {0, 1, 3}}
        \cup {[a |-> U64_MAX, b |-> U64_MAX],
              [a |-> U64(7), b |-> <<LIMB - 30, LIMB - 1, LIMB - 1, LIMB - 1>>]}

InitBF ==
    /\ bf \in {bloom_filter_new(item_count, fpp) :
                 item_count \in 1 .. MaxBFItemCount, fpp \in BFFpps}
    /\ bf_items = {}
    /\ bf_last = [op |-> "new", calls |-> 0]
    /\ qf = Absent /\ qf_items = Absent /\ qf_last = Absent
    /\ cf = Absent /\ cf_items = Absent /\ cf_last = Absent
    /\ bv = Absent /\ bv_last = Absent
    /\ sv = Absent /\ sv_last = Absent
    /\ hi = Absent
    /\ scf = Absent /\ scf_last = Absent
    /\ sbf = Absent /\ sbf_last = Absent
    /\ by = Absent
    /\ dd = Absent /\ dd_last = Absent
    /\ cms = Absent /\ cms_sums = Absent /\ cms_last = Absent
    /\ hl = Absent /\ hl_last = Absent
    /\ qn = Absent

BFInsert(x) ==
    /\ bf_last.calls < MaxBFCalls
    /\ bf' = bloom_filter_insert(bf, x)
    /\ bf_items' = bf_items \cup {x}
    /\ bf_last' = [op |-> "insert", calls |-> bf_last.calls + 1]
    /\ UNCHANGED <<qf_vars, cf_vars, bv_vars, sv_vars, hi_vars, scf_vars, sbf_vars, by_vars, dd_vars, cms_vars, hl_vars, qn_vars>>

BFClear ==
    /\ bf_last.calls < MaxBFCalls
    /\ bf' = bloom_filter_clear(bf)
    /\ bf_items' = {}
    /\ bf_last' = [op |-> "clear", calls |-> bf_last.calls + 1]
    /\ UNCHANGED <<qf_vars, cf_vars, bv_vars, sv_vars, hi_vars, scf_vars, sbf_vars, by_vars, dd_vars, cms_vars, hl_vars, qn_vars>>

NextBF ==
    \/ \E x \in BFItems : BFInsert(x)
    \/ BFClear

SpecBF == InitBF /\ [][NextBF]_vars

\* C22: count_ones() never decreases across an insert and is 0 after clear();
\* every item inserted since the last clear() is reported by contains.
C22_CountOnesMonotone ==
    [][/\ bf_last'.op = "insert" =>
            BloomFilter_count_ones(bf') >= BloomFilter_count_ones(bf)
       /\ bf_last'.op = "clear" => BloomFilter_count_ones(bf') = 0
       /\ \A x \in bf_items' : bloom_filter_contains(bf', x)]_vars

\* two items are in a filter with several hash functions, and they share a bit
C22_TwoItemsShareABit ==
    /\ bf_last.op = "insert"
    /\ Cardinality(bf_items) = 2
    /\ bf.hasher_count >= 2
    /\ \A x \in bf_items : \E y \in bf_items \ {x} :
         \E i, j \in 0 .. bf.hasher_count - 1 : get_offset(bf, x, i) = get_offset(bf, y, j)
    /\ BloomFilter_count_ones(bf) >= 3

(***************************************************************************)
(* The stream de-duplication filters (src/src/bloom/dd_bloom_filter.rs):   *)
(* BSBloomFilter, BSSDBloomFilter and RLBSBloomFilter.  The values the     *)
(* random generator yields are an argument (rng) of insert.                *)
(***************************************************************************)
\* ln(1 - 1/e)
LN_1_MINUS_INV_E == [num |-> -458675, den |-> 1000000]

\* get_hasher_count (the same body in the three filters):
\* ceil((1 + ln(fpp) / ln(1 - 1/e) + 1) / 2), with ln(fpp) = -neg_log2(fpp) * ln 2;
\* the two logarithms are fractions of the same denominator
BSBloomFilter_get_hasher_count(fpp) ==
    CeilDiv(2 * (-LN_1_MINUS_INV_E.num) + neg_log2(fpp) * LN_2.num,
            2 * (-LN_1_MINUS_INV_E.num))

BSBloomFilter_with_hashers(bit_count, fpp) ==
    LET hasher_count == BSBloomFilter_get_hasher_count(fpp)
    IN [kind |-> "BS", bit_vec |-> BitVec_new(bit_count * hasher_count),
        bit_count |-> bit_count, hasher_count |-> hasher_count]

BSSDBloomFilter_with_hashers(bit_count, fpp) ==
    LET hasher_count == BSBloomFilter_get_hasher_count(fpp)
    IN [kind |-> "BSSD", bit_vec |-> BitVec_new(bit_count * hasher_count),
        bit_count |-> bit_count, hasher_count |-> hasher_count]

RLBSBloomFilter_with_hashers(bit_count, fpp) ==
    LET hasher_count == BSBloomFilter_get_hasher_count(fpp)
    IN [kind |-> "RLBS", bit_vecs |-> [i \in 1 .. hasher_count |-> BitVec_new(bit_count)],
        bit_count |-> bit_count, hasher_count |-> hasher_count]

\* hashes.take(k): the first k values of the iterator, as a sequence
RECURSIVE HashIter_take(_, _)
HashIter_take(iter, k) ==
    IF k = 0 THEN << >>
    ELSE LET r == HashIter_next(iter) IN <<r.ret>> \o HashIter_take(r.iter, k - 1)

\* the offset of hash number index (from 0) in the partitioned bit vector
BSBloomFilter_offset(filter, hashes, index) ==
    U64Mod(HashIter_take(hashes, filter.hasher_count)[index + 1], filter.bit_count)
        + index * filter.bit_count

BSBloomFilter_contains_hashes(filter, hashes) ==
    \A index \in 0 .. filter.hasher_count - 1 :
        BitVec_get(filter.bit_vec, BSBloomFilter_offset(filter, hashes, index))

\* the loop that clears one random bit of every partition, from partition index on
RECURSIVE BSBloomFilter_evict_from(_, _, _, _)
BSBloomFilter_evict_from(bit_vec, filter, rng, index) ==
    IF index = filter.hasher_count THEN bit_vec
    ELSE BSBloomFilter_evict_from(
             BitVec_set(bit_vec, index * filter.bit_count + rng[index + 1], FALSE, "debug").vec,
             filter, rng, index + 1)

\* the loop that sets the item's positions, from hash number index on
RECURSIVE BSBloomFilter_set_from(_, _, _, _)
BSBloomFilter_set_from(bit_vec, filter, hashes, index) ==
    IF index = filter.hasher_count THEN bit_vec
    ELSE BSBloomFilter_set_from(
             BitVec_set(bit_vec, BSBloomFilter_offset(filter, hashes, index), TRUE, "debug").vec,
             filter, hashes, index + 1)

\* insert with the two loops in the other order
BSBloomFilter_insert_evict_last(filter, hashes, rng) ==
    IF BSBloomFilter_contains_hashes(filter, hashes) THEN filter
    ELSE [filter EXCEPT !.bit_vec =
             BSBloomFilter_evict_from(BSBloomFilter_set_from(@, filter, hashes, 0), filter, rng, 0)]

\* BSBloomFilter::insert; rng[i] is the value of the i-th gen_range(0, bit_count)
BSBloomFilter_insert(filter, hashes, rng) ==
    IF BSBloomFilter_contains_hashes(filter, hashes) THEN filter
    ELSE [filter EXCEPT !.bit_vec =
             BSBloomFilter_set_from(BSBloomFilter_evict_from(@, filter, rng, 0), filter, hashes, 0)]

\* BSSDBloomFilter::contains_hashes has the body of BSBloomFilter's
BSSDBloomFilter_contains_hashes(filter, hashes) ==
    \A index \in 0 .. filter.hasher_count - 1 :
        BitVec_get(filter.bit_vec, BSBloomFilter_offset(filter, hashes, index))

\* BSSDBloomFilter::insert; rng is the pair of values of gen_range(0, hasher_count)
\* and gen_range(0, bit_count)
BSSDBloomFilter_insert(filter, hashes, rng) ==
    IF BSSDBloomFilter_contains_hashes(filter, hashes) THEN filter
    ELSE [filter EXCEPT !.bit_vec =
             BSBloomFilter_set_from(
                 BitVec_set(@, rng.filter_index * filter.bit_count + rng.index, FALSE, "debug").vec,
                 filter, hashes, 0)]

RLBSBloomFilter_contains_hashes(filter, hashes) ==
    \A filter_index \in 0 .. filter.hasher_count - 1 :
        BitVec_get(filter.bit_vecs[filter_index + 1],
                   U64Mod(HashIter_take(hashes, filter.hasher_count)[filter_index + 1],
                          filter.bit_count))

\* one round of the eviction loop: the bit at the random index is cleared when
\* the random f64 is below count_ones / bit_count
RLBSBloomFilter_evict(bit_vec, bit_count, draw) ==
    IF draw.f64.num * bit_count < count_ones(bit_vec) * draw.f64.den
    THEN BitVec_set(bit_vec, draw.index, FALSE, "debug").vec
    ELSE bit_vec

\* RLBSBloomFilter::insert; rng[i] is the pair of values of gen_range(0, bit_count)
\* and gen::<f64>() drawn for filter i
RLBSBloomFilter_insert(filter, hashes, rng) ==
    IF RLBSBloomFilter_contains_hashes(filter, hashes) THEN filter
    ELSE [filter EXCEPT !.bit_vecs = [i \in 1 .. filter.hasher_count |->
             BitVec_set(RLBSBloomFilter_evict(@[i], filter.bit_count, rng[i]),
                        U64Mod(HashIter_take(hashes, filter.hasher_count)[i], filter.bit_count),
                        TRUE, "debug").vec]]

\* contains and insert of the filter of any of the three kinds
DDContains(filter, item) ==
    LET hashes == DoubleHasher_hash(item.a, item.b)
    IN CASE filter.kind = "BS" -> BSBloomFilter_contains_hashes(filter, hashes)
         [] filter.kind = "BSSD" -> BSSDBloomFilter_contains_hashes(filter, hashes)
         [] filter.kind = "RLBS" -> RLBSBloomFilter_contains_hashes(filter, hashes)

DDInsertOf(filter, item, rng) ==
    LET hashes == DoubleHasher_hash(item.a, item.b)
    IN CASE filter.kind = "BS" -> BSBloomFilter_insert(filter, hashes, rng)
         [] filter.kind = "BSSD" -> BSSDBloomFilter_insert(filter, hashes, rng)
         [] filter.kind = "RLBS" -> RLBSBloomFilter_insert(filter, hashes, rng)

\* the bits of the filter, whatever its kind
DDBits(filter) == IF filter.kind = "RLBS" THEN filter.bit_vecs ELSE <<filter.bit_vec>>

\* the random values make the eviction choose one of the item's own positions
DDEvictionHits(filter, item, rng) ==
    LET hashes == HashIter_take(DoubleHasher_hash(item.a, item.b), filter.hasher_count)
    IN CASE filter.kind = "BS" ->
              \E i \in 1 .. filter.hasher_count : rng[i] = U64Mod(hashes[i], filter.bit_count)
         [] filter.kind = "BSSD" ->
              rng.index = U64Mod(hashes[rng.filter_index + 1], filter.bit_count)
         [] filter.kind = "RLBS" ->
              \E i \in 1 .. filter.hasher_count :
                  /\ rng[i].index = U64Mod(hashes[i], filter.bit_count)
                  /\ rng[i].f64.num * filter.bit_count < count_ones(filter.bit_vecs[i]) * rng[i].f64.den

\* ---- the three filters as a state machine ----
\* dd       the filter
\* dd_last  the last call: op, the item, whether contains reported it before
\*          the call (present), whether the eviction chose a position of the
\*          item itself (hit), and the number of calls so far
MaxDDBitCount == 2
MaxDDCalls == 3

\* fpp 1, 0.5 and 0.25: one, two and three hash functions
DDFpps == {[num |-> 1, den |-> 1], [num |-> 1, den |-> 2], [num |-> 1, den |-> 4]}

DDItems ==
    {[a |-> U64(a), b |-> U64(b)] : a \in {0, 1}, b \in {0, 1}}
        \cup {[a |-> U64_MAX, b |-> U64_MAX]}

\* the values gen::<f64>() is taken from
RngF64s == {[num |-> 0, den |-> 2], [num |-> 1, den |-> 2]}

\* the random values one insert may draw
DDRngs(filter) ==
    CASE filter.kind = "BS" ->
           [1 .. filter.hasher_count -> 0 .. filter.bit_count - 1]
      [] filter.kind = "BSSD" ->
           [filter_index : 0 .. filter.hasher_count - 1, index : 0 .. filter.bit_count - 1]
      [] filter.kind = "RLBS" ->
           [1 .. filter.hasher_count -> [index : 0 .. filter.bit_count - 1, f64 : RngF64s]]

InitDD ==
    /\ dd \in UNION {{BSBloomFilter_with_hashers(bit_count, fpp),
                      BSSDBloomFilter_with_hashers(bit_count, fpp),
                      RLBSBloomFilter_with_hashers(bit_count, fpp)} :
                        bit_count \in 1 .. MaxDDBitCount, fpp \in DDFpps}
    /\ dd_last = [op |-> "new", item |-> [a |-> U64(0), b |-> U64(0)], present |-> FALSE,
                  hit |-> FALSE, calls |-> 0]
    /\ qf = Absent /\ qf_items = Absent /\ qf_last = Absent
    /\ cf = Absent /\ cf_items = Absent /\ cf_last = Absent
    /\ bv = Absent /\ bv_last = Absent
    /\ sv = Absent /\ sv_last = Absent
    /\ hi = Absent
    /\ scf = Absent /\ scf_last = Absent
    /\ sbf = Absent /\ sbf_last = Absent
    /\ by = Absent
    /\ bf = Absent /\ bf_items = Absent /\ bf_last = Absent
    /\ cms = Absent /\ cms_sums = Absent /\ cms_last = Absent
    /\ hl = Absent /\ hl_last = Absent
    /\ qn = Absent

DDInsert(x, rng) ==
    /\ dd_last.calls < MaxDDCalls
    /\ dd' = DDInsertOf(dd, x, rng)
    /\ dd_last' = [op |-> "insert", item |-> x, present |-> DDContains(dd, x),
                   hit |-> DDEvictionHits(dd, x, rng), calls |-> dd_last.calls + 1]
    /\ UNCHANGED <<qf_vars, cf_vars, bv_vars, sv_vars, hi_vars, scf_vars, sbf_vars, by_vars, bf_vars, cms_vars, hl_vars, qn_vars>>

NextDD == \E x \in DDItems : \E rng \in DDRngs(dd) : DDInsert(x, rng)

SpecDD == InitDD /\ [][NextDD]_vars

\* C23: in the three filters, contains(x) is true right after insert(x) whatever
\* bits the random eviction chose, and insert of an item that contains already
\* reports changes no bit.
C23_InsertedIsContained ==
    [][dd_last'.op = "insert" =>
          /\ DDContains(dd', dd_last'.item)
          /\ dd_last'.present => DDBits(dd') = DDBits(dd)]_vars

\* an insert of a new item whose eviction chose a position of the item itself,
\* in a filter that held another item which the eviction removed
C23_EvictionHitOwnPosition ==
    /\ dd_last.op = "insert"
    /\ ~dd_last.present
    /\ dd_last.hit
    /\ dd.kind = "RLBS"
    /\ dd.hasher_count >= 2
    /\ dd_last.calls >= 2
    /\ \E y \in DDItems \ {dd_last.item} : DDContains(dd, y)

(***************************************************************************)
(* CountMinSketch with CountMinStrategy (src/src/count_min_sketch.rs).     *)
(* An i64 is written in two's complement as its four 16-bit limbs, least   *)
(* significant first, so that a sum past i64::MAX wraps to a negative      *)
(* value (release) or is detected (debug).                                 *)
(***************************************************************************)
I64_MAX == <<LIMB - 1, LIMB - 1, LIMB - 1, LIMB \div 2 - 1>>

I64IsNegative(x) == x[4] >= LIMB \div 2

\* x < y for two numbers of limbs 1 .. i, the most significant limb compared first
RECURSIVE LimbsLt(_, _, _)
LimbsLt(x, y, i) ==
    IF i = 0 THEN FALSE
    ELSE IF x[i] # y[i] THEN x[i] < y[i]
    ELSE LimbsLt(x, y, i - 1)

\* x < y for two i64
I64Lt(x, y) ==
    IF I64IsNegative(x) # I64IsNegative(y) THEN I64IsNegative(x)
    ELSE LimbsLt(x, y, 4)

\* x += y for two i64: an overflow panics in a debug build and wraps in a release build
I64AddAssign(x, y, build) ==
    LET sum == wrapping_add(x, y)
        overflow == /\ I64IsNegative(x) = I64IsNegative(y)
                    /\ I64IsNegative(sum) # I64IsNegative(x)
    IN [value |-> sum, outcome |-> IF overflow /\ build = "debug" THEN "panic" ELSE "ok"]

\* natural numbers of five limbs: the exact sums of up to 2^16 non-negative i64
Wide(x) == x \o <<0>>

WideAdd(x, y) ==
    LET s1 == x[1] + y[1]
        s2 == x[2] + y[2] + s1 \div LIMB
        s3 == x[3] + y[3] + s2 \div LIMB
        s4 == x[4] + y[4] + s3 \div LIMB
        s5 == x[5] + y[5] + s4 \div LIMB
    IN <<s1 % LIMB, s2 % LIMB, s3 % LIMB, s4 % LIMB, s5>>

\* the i64 x is at least the natural number n
I64GeqWide(x, n) == ~I64IsNegative(x) /\ ~LimbsLt(Wide(x), n, 5)

CountMinSketch_with_hashers(rows, cols) ==
    [rows |-> rows, cols |-> cols, items |-> U64(0),
     grid |-> [i \in 1 .. rows * cols |-> U64(0)]]

\* the index in grid (from 1) of the cell of the item in a row (from 0)
CountMinSketch_cell(sketch, item, row) ==
    row * sketch.cols
        + U64Mod(HashIter_take(DoubleHasher_hash(item.a, item.b), sketch.rows)[row + 1],
                 sketch.cols) + 1

\* the loop of insert from a row on
RECURSIVE CountMinSketch_insert_from(_, _, _, _, _)
CountMinSketch_insert_from(sketch, item, value, row, build) ==
    IF row = sketch.rows THEN [sketch |-> sketch, outcome |-> "ok"]
    ELSE LET cell == CountMinSketch_cell(sketch, item, row)
             added == I64AddAssign(sketch.grid[cell], value, build)
         IN IF added.outcome = "panic" THEN [sketch |-> sketch, outcome |-> "panic"]
            ELSE CountMinSketch_insert_from([sketch EXCEPT !.grid[cell] = added.value],
                                            item, value, row + 1, build)

\* insert that adds the value to the cell of the first row only
CountMinSketch_insert_first_row(sketch, item, value, build) ==
    LET added == I64AddAssign(sketch.items, value, build)
        cell == CountMinSketch_cell(sketch, item, 0)
    IN [sketch |-> [sketch EXCEPT !.items = added.value,
                                  !.grid[cell] = wrapping_add(@, value)],
        outcome |-> added.outcome]

CountMinSketch_insert(sketch, item, value, build) ==
    LET added == I64AddAssign(sketch.items, value, build)
    IN IF added.outcome = "panic" THEN [sketch |-> sketch, outcome |-> "panic"]
       ELSE CountMinSketch_insert_from([sketch EXCEPT !.items = added.value],
                                       item, value, 0, build)

\* ItemValueIter: the cells of the item, one of every row
ItemValueIter(sketch, item) ==
    [row \in 0 .. sketch.rows - 1 |-> sketch.grid[CountMinSketch_cell(sketch, item, row)]]

\* CountMinStrategy::get_estimate: iter.min() of a non-empty iterator
CountMinStrategy_get_estimate(iter) ==
    CHOOSE value \in {iter[row] : row \in DOMAIN iter} :
        \A row \in DOMAIN iter : ~I64Lt(iter[row], value)

CountMinSketch_count(sketch, item) ==
    CountMinStrategy_get_estimate(ItemValueIter(sketch, item))

\* ---- the sketch as a state machine ----
\* cms       the CountMinSketch
\* cms_sums  for every item the exact sum of the values inserted for it
\* cms_last  the last call (op), its outcome, the build and the number of calls
MaxCMSRows == 2
MaxCMSCols == 2
MaxCMSCalls == 4

CMSItems ==
    {[a |-> U64(0), b |-> U64(1)], [a |-> U64(1), b |-> U64(0)],
     [a |-> U64_MAX, b |-> U64_MAX]}

\* values v >= 0 of insert
CMSValues == {U64(0), U64(1), I64_MAX}

InitCMS ==
    /\ cms \in {CountMinSketch_with_hashers(rows, cols) :
                  rows \in 1 .. MaxCMSRows, cols \in 1 .. MaxCMSCols}
    /\ cms_sums = [x \in CMSItems |-> Wide(U64(0))]
    /\ cms_last \in {[op |-> "new", outcome |-> "ok", build |-> build, calls |-> 0] :
                       build \in Builds}
    /\ qf = Absent /\ qf_items = Absent /\ qf_last = Absent
    /\ cf = Absent /\ cf_items = Absent /\ cf_last = Absent
    /\ bv = Absent /\ bv_last = Absent
    /\ sv = Absent /\ sv_last = Absent
    /\ hi = Absent
    /\ scf = Absent /\ scf_last = Absent
    /\ sbf = Absent /\ sbf_last = Absent
    /\ by = Absent
    /\ bf = Absent /\ bf_items = Absent /\ bf_last = Absent
    /\ dd = Absent /\ dd_last = Absent
    /\ hl = Absent /\ hl_last = Absent
    /\ qn = Absent

CMSInsert(x, v) ==
    /\ cms_last.calls < MaxCMSCalls
    /\ cms_last.outcome = "ok"
    /\ LET r == CountMinSketch_insert(cms, x, v, cms_last.build)
       IN /\ cms' = r.sketch
          /\ cms_last' = [cms_last EXCEPT !.op = "insert", !.outcome = r.outcome,
                                          !.calls = @ + 1]
    /\ cms_sums' = [cms_sums EXCEPT ![x] = WideAdd(@, Wide(v))]
    /\ UNCHANGED <<qf_vars, cf_vars, bv_vars, sv_vars, hi_vars, scf_vars, sbf_vars, by_vars, bf_vars, dd_vars, hl_vars, qn_vars>>

NextCMS == \E x \in CMSItems : \E v \in CMSValues : CMSInsert(x, v)

SpecCMS == InitCMS /\ [][NextCMS]_vars

\* the exact sum of all the values inserted
RECURSIVE CMSTotalOf(_)
CMSTotalOf(items) ==
    IF items = {} THEN Wide(U64(0))
    ELSE LET x == CHOOSE y \in items : TRUE
         IN WideAdd(cms_sums[x], CMSTotalOf(items \ {x}))

CMSTotalFits == ~LimbsLt(Wide(I64_MAX), CMSTotalOf(CMSItems), 5)

EXP == [p \in 4 .. 6 |-> CASE p = 4 -> 5460 [] p = 5 -> 14841 [] p = 6 -> 40343]

\* new: p = ceil(ln((1.04 / error_probability)^2)), the least p with
\* (1.04 / error_probability)^2 <= e^p, and 2^p registers of 0
HyperLogLog_new(error_probability) ==
    LET p == CHOOSE p \in 4 .. 6 :
                 /\ (104 * error_probability.den) * (104 * error_probability.den) * 100
                        <= EXP[p] * (100 * error_probability.num) * (100 * error_probability.num)
                 /\ p > 4 =>
                      (104 * error_probability.den) * (104 * error_probability.den) * 100
                        > EXP[p - 1] * (100 * error_probability.num) * (100 * error_probability.num)
    IN [p |-> p, registers |-> [i \in 0 .. Pow2(p) - 1 |-> 0]]

\* bit k of a u64
U64Bit(hash, k) == (hash[k \div 16 + 1] \div Pow2(k % 16)) % 2

\* (!hash >> p).trailing_zeros()
HyperLogLog_value(hash, p) ==
    IF \E j \in 0 .. 63 - p : U64Bit(hash, j + p) = 0
    THEN CHOOSE j \in 0 .. 63 - p :
             /\ U64Bit(hash, j + p) = 0
             /\ \A k \in 0 .. j - 1 : U64Bit(hash, k + p) = 1
    ELSE 64

HyperLogLog_insert(sketch, hash) ==
    LET register_index == hash[1] % Pow2(sketch.p)
        value == HyperLogLog_value(hash, sketch.p)
    IN [sketch EXCEPT !.registers[register_index] = IF @ >= value + 1 THEN @ ELSE value + 1]

\* merge that copies the registers of the other sketch
HyperLogLog_merge_overwrite(sketch, other) ==
    IF sketch.p # other.p THEN [sketch |-> sketch, outcome |-> "panic"]
    ELSE [sketch |-> [sketch EXCEPT !.registers = other.registers], outcome |-> "ok"]

\* merge: assert_eq!(self.p, other.p), then every register becomes the larger
\* of the two
HyperLogLog_merge(sketch, other) ==
    IF sketch.p # other.p THEN [sketch |-> sketch, outcome |-> "panic"]
    ELSE [sketch |-> [sketch EXCEPT !.registers =
                         [index \in DOMAIN @ |->
                             IF @[index] >= other.registers[index] THEN @[index]
                             ELSE other.registers[index]]],
          outcome |-> "ok"]

\* ---- three sketches as a state machine ----
\* hl       the three sketches hl[1], hl[2], hl[3]
\* hl_last  the last call (op), its outcome and the number of calls so far
MaxHLCalls == 3

\* error probabilities 0.2 (p = 4) and 0.1 (p = 5)
HLErrorProbabilities == {[num |-> 1, den |-> 5], [num |-> 1, den |-> 10]}

\* hashes of items: registers 0, 1 and the last one; 0, 1 and 2 ones above the index, and all ones
HLHashes == {U64(0), U64(1), U64(16), U64(17), U64(49), U64_MAX}

InitHL ==
    /\ hl \in [1 .. 3 -> {HyperLogLog_new(ep) : ep \in HLErrorProbabilities}]
    /\ hl_last = [op |-> "new", outcome |-> "ok", calls |-> 0]
    /\ qf = Absent /\ qf_items = Absent /\ qf_last = Absent
    /\ cf = Absent /\ cf_items = Absent /\ cf_last = Absent
    /\ bv = Absent /\ bv_last = Absent
    /\ sv = Absent /\ sv_last = Absent
    /\ hi = Absent
    /\ scf = Absent /\ scf_last = Absent
    /\ sbf = Absent /\ sbf_last = Absent
    /\ by = Absent
    /\ bf = Absent /\ bf_items = Absent /\ bf_last = Absent
    /\ dd = Absent /\ dd_last = Absent
    /\ cms = Absent /\ cms_sums = Absent /\ cms_last = Absent
    /\ qn = Absent

HLInsert(i, hash) ==
    /\ hl_last.calls < MaxHLCalls
    /\ hl_last.outcome = "ok"
    /\ hl' = [hl EXCEPT ![i] = HyperLogLog_insert(@, hash)]
    /\ hl_last' = [op |-> "insert", outcome |-> "ok", calls |-> hl_last.calls + 1]
    /\ UNCHANGED <<qf_vars, cf_vars, bv_vars, sv_vars, hi_vars, scf_vars, sbf_vars, by_vars, bf_vars, dd_vars, cms_vars, qn_vars>>

\* hl[i].merge(&hl[j]); with i = j the argument is a clone of the sketch
HLMerge(i, j) ==
    /\ hl_last.calls < MaxHLCalls
    /\ hl_last.outcome = "ok"
    /\ LET r == HyperLogLog_merge(hl[i], hl[j])
       IN /\ hl' = [hl EXCEPT ![i] = r.sketch]
          /\ hl_last' = [op |-> "merge", outcome |-> r.outcome, calls |-> hl_last.calls + 1]
    /\ UNCHANGED <<qf_vars, cf_vars, bv_vars, sv_vars, hi_vars, scf_vars, sbf_vars, by_vars, bf_vars, dd_vars, cms_vars, qn_vars>>

NextHL ==
    \/ \E i \in 1 .. 3 : \E hash \in HLHashes : HLInsert(i, hash)
    \/ \E i, j \in 1 .. 3 : HLMerge(i, j)

SpecHL == InitHL /\ [][NextHL]_vars

\* C25: for sketches of equal p, merge leaves in every register the larger of
\* the two values; merging B then C into A gives the registers of merging C
\* then B; merging a sketch into itself changes nothing.
C25_MergeIsRegisterMax ==
    \A i, j, k \in 1 .. 3 :
        (hl[i].p = hl[j].p /\ hl[i].p = hl[k].p) =>
            LET ab == HyperLogLog_merge(hl[i], hl[j])
                ac == HyperLogLog_merge(hl[i], hl[k])
            IN /\ ab.outcome = "ok"
               /\ \A index \in DOMAIN hl[i].registers :
                     /\ ab.sketch.registers[index] >= hl[i].registers[index]
                     /\ ab.sketch.registers[index] >= hl[j].registers[index]
                     /\ ab.sketch.registers[index]
                            \in {hl[i].registers[index], hl[j].registers[index]}
               /\ HyperLogLog_merge(ab.sketch, hl[k]).sketch.registers
                     = HyperLogLog_merge(ac.sketch, hl[j]).sketch.registers
               /\ HyperLogLog_merge(hl[i], hl[i]).sketch = hl[i]

\* three sketches of equal p, each with a register above the other two, of
\* which the first was the target of a merge
C25_ThreeIncomparableSketches ==
    /\ hl_last.op = "merge" /\ hl_last.outcome = "ok"
    /\ hl[1].p = hl[2].p /\ hl[2].p = hl[3].p
    /\ \E index \in DOMAIN hl[2].registers :
          /\ hl[2].registers[index] > hl[3].registers[index]
          /\ hl[2].registers[index] > 0
    /\ \E index \in DOMAIN hl[3].registers :
          /\ hl[3].registers[index] > hl[2].registers[index]
          /\ hl[3].registers[index] > hl[1].registers[index]
    /\ \E index \in DOMAIN hl[1].registers : hl[1].registers[index] > hl[3].registers[index]

\* ---- the metadata bits of the quotient filter ----
is_occupied(f, index) == BitAnd(BitstringVec_get(f.slot_vec, index), OCCUPIED_MASK) # 0

is_continuation(f, index) == BitAnd(BitstringVec_get(f.slot_vec, index), CONTINUATION_MASK) # 0

is_shifted(f, index) == BitAnd(BitstringVec_get(f.slot_vec, index), SHIFTED_MASK) # 0

\* C26: after every insert and remove that returned, the is_occupied bit of slot
\* q is set if and only if some stored fingerprint has quotient q.
C26_OccupiedIffQuotientStored ==
    qf_last.outcome = "ok" =>
        \A q \in 0 .. capacity(qf) - 1 :
            is_occupied(qf, q)
                <=> \E fp \in QFFingerprints(qf, qf_items) : fp.quotient = q

\* the remainder held by a slot
slot_remainder(f, index) == BitstringVec_get(f.slot_vec, index) \div Pow2(METADATA_BITS)

\* the quotients and, for a quotient, the remainders of the stored fingerprints
QFQuotients(f, items) == {fp.quotient : fp \in QFFingerprints(f, items)}

QFRemainders(f, items, q) ==
    {fp.remainder : fp \in {g \in QFFingerprints(f, items) : g.quotient = q}}

\* the slots of the run of quotient q when it starts at slot start
QFRunSlots(f, items, q, start) ==
    {(start + i) % capacity(f) : i \in 0 .. Cardinality(QFRemainders(f, items, q)) - 1}

\* starts is a placement of the runs: the run of every stored quotient q lies in
\* consecutive non-empty slots from starts[q] on, with the remainders of q in
\* strictly ascending order, no two runs share a slot, and no other slot is
\* non-empty
QFRunsAt(f, items, starts) ==
    /\ \A q \in QFQuotients(f, items) :
          \A i \in 0 .. Cardinality(QFRemainders(f, items, q)) - 1 :
              LET index == (starts[q] + i) % capacity(f)
              IN /\ index \in QFNonEmptySlots(f)
                 /\ slot_remainder(f, index) \in QFRemainders(f, items, q)
                 /\ i > 0 => slot_remainder(f, decrement_index(f, index))
                                < slot_remainder(f, index)
    /\ \A q1, q2 \in QFQuotients(f, items) :
          q1 # q2 => QFRunSlots(f, items, q1, starts[q1])
                        \cap QFRunSlots(f, items, q2, starts[q2]) = {}
    /\ Cardinality(QFNonEmptySlots(f)) = Cardinality(QFFingerprints(f, items))

\* C27: after every insert and remove that returned, the stored fingerprints of
\* one quotient lie in one run of consecutive slots (circularly) with no empty
\* slot inside, and the remainders of a run are strictly ascending.
C27_RunsContiguousAndSorted ==
    qf_last.outcome = "ok" =>
        \E starts \in [QFQuotients(qf, qf_items) -> 0 .. capacity(qf) - 1] :
            QFRunsAt(qf, qf_items, starts)

\* the slots of the run whose first slot is index: index and the slots after
\* it that are continuations
RECURSIVE QFRunFrom(_, _, _)
QFRunFrom(f, index, fuel) ==
    LET next_index == increment_index(f, index)
    IN IF fuel > 0 /\ is_continuation(f, next_index)
       THEN {index} \cup QFRunFrom(f, next_index, fuel - 1)
       ELSE {index}

\* C28: in every state reached by calls that returned, for every q whose
\* is_occupied bit is set, get_run_start(q) ends at the first slot of a run of
\* non-empty slots that holds exactly the fingerprints with quotient q.
C28_RunStartFindsRunOfQuotient ==
    qf_last.outcome = "ok" =>
        \A q \in 0 .. capacity(qf) - 1 :
            is_occupied(qf, q) =>
                LET start == get_run_start(qf, q)
                    run == QFRunFrom(qf, start.index, capacity(qf) - 1)
                IN /\ ~start.diverged
                   /\ ~is_continuation(qf, start.index)
                   /\ run \subseteq QFNonEmptySlots(qf)
                   /\ {slot_remainder(qf, index) : index \in run}
                          = QFRemainders(qf, qf_items, q)
                   /\ Cardinality(run) = Cardinality(QFRemainders(qf, qf_items, q))

\* the slots of all the runs placed by starts
QFAllRunSlots(f, items, starts) ==
    UNION {QFRunSlots(f, items, q, starts[q]) : q \in QFQuotients(f, items)}

\* with the runs placed by starts, a slot of a run is a continuation exactly
\* when it is not the first slot of the run, and a slot of no run has
\* is_continuation and is_shifted clear
QFContinuationAt(f, items, starts) ==
    /\ \A q \in QFQuotients(f, items) :
          \A index \in QFRunSlots(f, items, q, starts[q]) :
              is_continuation(f, index) <=> index # starts[q]
    /\ \A index \in (0 .. capacity(f) - 1) \ QFAllRunSlots(f, items, starts) :
          ~is_continuation(f, index) /\ ~is_shifted(f, index)

\* C29: after every insert and remove that returned, a non-empty slot has
\* is_continuation set if and only if it is not the first slot of its run, and
\* an empty slot has is_continuation and is_shifted clear.
C29_ContinuationIffNotRunStart ==
    qf_last.outcome = "ok" =>
        \E starts \in [QFQuotients(qf, qf_items) -> 0 .. capacity(qf) - 1] :
            /\ QFRunsAt(qf, qf_items, starts)
            /\ QFContinuationAt(qf, qf_items, starts)

\* with the runs placed by starts, a slot of the run of quotient q is shifted
\* exactly when it is not slot q
QFShiftedAt(f, items, starts) ==
    \A q \in QFQuotients(f, items) :
        \A index \in QFRunSlots(f, items, q, starts[q]) :
            is_shifted(f, index) <=> index # q

\* C30: after every insert and remove that returned, a non-empty slot has
\* is_shifted set if and only if the quotient of the fingerprint it holds is
\* not the index of the slot.
C30_ShiftedIffNotCanonical ==
    qf_last.outcome = "ok" =>
        \E starts \in [QFQuotients(qf, qf_items) -> 0 .. capacity(qf) - 1] :
            /\ QFRunsAt(qf, qf_items, starts)
            /\ QFShiftedAt(qf, qf_items, starts)

\* C31: contains(x) returns true only if a fingerprint with the quotient and
\* the remainder of x is stored.
C31_ContainsOnlyStored ==
    qf_last.outcome = "ok" =>
        \A x \in Hashes : contains(qf, x) => QFStoredFp(qf, qf_items, x)

\* ---- the bucket indexes of the cuckoo filter ----
\* the other candidate bucket of a fingerprint held in bucket index:
\* (index ^ raw_fingerprint as usize) % self.bucket_len()
alt_index(f, index, raw_fingerprint) == BitXor(index, raw_fingerprint) % bucket_len(f)

\* C32: for every fingerprint fp and every bucket index i < bucket_len(), the
\* alternate-index map alt(i) = (i XOR fp) mod bucket_len() is its own inverse.
C32_AltIndexIsInvolution ==
    \A raw_fingerprint \in 1 .. Pow2(fingerprint_bit_count(cf)) - 1 :
        \A index \in 0 .. bucket_len(cf) - 1 :
            alt_index(cf, alt_index(cf, index, raw_fingerprint), raw_fingerprint) = index

\* the raw fingerprint held by a slot of the table
CFSlot(f, vec_index) == get_raw_fingerprint(BitArrayVec_get(f.fingerprint_vec, vec_index))

\* the slots of the table that are not empty
CFNonEmptySlots(f) == {v \in 0 .. f.fingerprint_vec.len - 1 : CFSlot(f, v) # 0}

\* C33: after every call that returned, a non-empty slot of bucket b holds the
\* fingerprint of an inserted item that has b among its two candidate buckets,
\* and an entry (fp, m) of extra_items is the fingerprint of an inserted item
\* whose smaller candidate bucket is m.
C33_PlacementInvariant ==
    cf_last.outcome = "ok" =>
        /\ \A v \in CFNonEmptySlots(cf) :
              \E x \in cf_items :
                 LET fi == get_fingerprint_and_indexes(cf, x)
                 IN /\ fi.raw = CFSlot(cf, v)
                    /\ v \div cf.entries_per_index \in {fi.index_1, fi.index_2}
        /\ \A k \in DOMAIN cf.extra_items :
              \E x \in cf_items :
                 LET fi == get_fingerprint_and_indexes(cf, x)
                 IN /\ fi.raw = cf.extra_items[k][1]
                    /\ cf.extra_items[k][2] = Min(fi.index_1, fi.index_2)

\* the number of copies of a raw fingerprint in the table and in extra_items
CFCount(f, raw_fingerprint) ==
    Cardinality({v \in 0 .. f.fingerprint_vec.len - 1 : CFSlot(f, v) = raw_fingerprint})
        + Cardinality({k \in DOMAIN f.extra_items : f.extra_items[k][1] = raw_fingerprint})

\* C34: insert(x) that returns from a state where the fingerprint of x is not
\* contained leaves every fingerprint with the number of copies it had, and the
\* fingerprint of x with one more; where it is contained, insert(x) changes
\* nothing.  Checked for every item x in every state CFInsert is enabled in.
C34_InsertConservesFingerprints ==
    (cf_last.outcome = "ok" /\ cf_last.calls < MaxCFCalls) =>
        \A x \in Items :
            LET fi == get_fingerprint_and_indexes(cf, x)
                c == contains_fingerprint(cf, fi.fingerprint, fi.index_1, fi.index_2)
            IN \A r \in CuckooFilter_insert(cf, x) :
                  r.outcome = "ok" =>
                      IF c = "true" THEN r.filter = cf
                      ELSE \A v \in 1 .. Pow2(fingerprint_bit_count(cf)) - 1 :
                              CFCount(r.filter, v)
                                  = CFCount(cf, v) + (IF v = fi.raw THEN 1 ELSE 0)

\* a full table with a fingerprint in extra_items: an insert ran its kicks to
\* the end and spilled
C34_KickedAndSpilled ==
    /\ cf_last.outcome = "ok"
    /\ cf.extra_items # << >>
    /\ Cardinality(CFNonEmptySlots(cf)) = cf.fingerprint_vec.len
    /\ cf.fingerprint_vec.len >= 2
    /\ bucket_len(cf) * cf.entries_per_index = cf.fingerprint_vec.len

\* the passes of the kick loop that insert can run from the loop states S, over
\* all choices of the generator: the closure of kick_pass
RECURSIVE CFKicksFrom(_, _)
CFKicksFrom(S, seen) ==
    LET passed == kick_pass(S)
        more == {p.state : p \in {q \in passed : q.kind = "more"}} \ seen
    IN IF more = {} THEN passed
       ELSE passed \cup CFKicksFrom(more, seen \cup more)

\* the passes of the kick loop of insert(item), none when insert returns before
\* the loop
CFKicks(f, item) ==
    LET fi == get_fingerprint_and_indexes(f, item)
        start == {[filter |-> f, fingerprint |-> fi.fingerprint,
                   index |-> index, prev_index |-> index]
                     : index \in {fi.index_1, fi.index_2}}
    IN IF /\ contains_fingerprint(f, fi.fingerprint, fi.index_1, fi.index_2) = "false"
          /\ insert_fingerprint(f, fi.fingerprint, fi.index_1).result = "false"
          /\ insert_fingerprint(f, fi.fingerprint, fi.index_2).result = "false"
       THEN CFKicksFrom(start, start)
       ELSE {}

\* C35: no zero fingerprint is stored: the fingerprint derived for an item is
\* non-zero, the fingerprint a kick takes out of the slot it swaps with is
\* non-zero (the slot was occupied), and every fingerprint in extra_items is
\* non-zero.
C35_NoZeroFingerprintStored ==
    cf_last.outcome = "ok" =>
        /\ \A k \in DOMAIN cf.extra_items : cf.extra_items[k][1] # 0
        /\ \A x \in Items : get_fingerprint_and_indexes(cf, x).raw # 0
        /\ cf_last.calls < MaxCFCalls =>
              \A x \in Items : \A p \in CFKicks(cf, x) :
                  p.kind # "panic" => get_raw_fingerprint(p.state.fingerprint) # 0

\* a filter holding a spilled fingerprint in which some insert runs the kick
\* loop again
C35_KickLoopRuns ==
    /\ cf_last.outcome = "ok"
    /\ cf_last.calls < MaxCFCalls
    /\ cf.extra_items # << >>
    /\ \E x \in Items : \E p \in CFKicks(cf, x) : p.kind = "more"

(***************************************************************************)
(* CuckooFilter with fingerprints of one and two bytes, whose slots        *)
(* straddle the bytes of the BitArrayVec.                                  *)
(***************************************************************************)
WideFingerprintBits == {7, 8, 9, 12, 16}

\* h0 values that agree on their low byte, on their high bits, or on neither:
\* 0x23, 0x103, 0x123, 0x1123
WideHashes == {35, 259, 291, 4387}

MaxWideH1 == 1

WideItems == [h0 : WideHashes, h1 : 0 .. MaxWideH1]

WideItemCounts == {2, 4}

InitCFWide ==
    /\ cf \in {from_parameters_with_hashers(item_count, bit_count, entries) :
                 item_count \in WideItemCounts,
                 bit_count \in WideFingerprintBits,
                 entries \in 1 .. MaxEntries}
    /\ cf_items = {}
    /\ cf_last = [outcome |-> "ok", calls |-> 0]
    /\ qf = Absent /\ qf_items = Absent /\ qf_last = Absent
    /\ bv = Absent /\ bv_last = Absent
    /\ sv = Absent /\ sv_last = Absent
    /\ hi = Absent
    /\ scf = Absent /\ scf_last = Absent
    /\ sbf = Absent /\ sbf_last = Absent
    /\ by = Absent
    /\ bf = Absent /\ bf_items = Absent /\ bf_last = Absent
    /\ dd = Absent /\ dd_last = Absent
    /\ cms = Absent /\ cms_sums = Absent /\ cms_last = Absent
    /\ hl = Absent /\ hl_last = Absent
    /\ qn = Absent

NextCFWide ==
    \/ \E x \in WideItems : CFInsert(x)
    \/ \E x \in WideItems : CFRemove(x)

SpecCFWide == InitCFWide /\ [][NextCFWide]_vars

\* bit number b of the blocks of a BitArrayVec, bit 0 being the lowest bit of
\* the first block
BlockBit(vec, b) == (vec.blocks[(b \div BLOCK_BIT_COUNT) + 1] \div Pow2(b % BLOCK_BIT_COUNT)) % 2

\* the bit_count bits of slot index read as an integer, lowest bit first
RECURSIVE StoredBitsFrom(_, _, _)
StoredBitsFrom(vec, index, k) ==
    IF k = vec.bit_count THEN 0
    ELSE BlockBit(vec, index * vec.bit_count + k) * Pow2(k) + StoredBitsFrom(vec, index, k + 1)

StoredBits(vec, index) == StoredBitsFrom(vec, index, 0)

\* the comparison contains_fingerprint makes on one slot
SlotMatches(f, vec_index, fingerprint) ==
    ZipAllEqual(BitArrayVec_get(f.fingerprint_vec, vec_index), fingerprint)

\* C36: contains_fingerprint takes a slot as matching only when the f bits
\* stored in the slot are the queried fingerprint as an integer, and so
\* reports an item only when the fingerprint of an item inserted and not
\* removed is its fingerprint.
C36_MatchIsIntegerEquality ==
    cf_last.outcome = "ok" =>
        \A x \in WideItems :
            LET fi == get_fingerprint_and_indexes(cf, x)
            IN /\ \A v \in 0 .. cf.fingerprint_vec.len - 1 :
                     SlotMatches(cf, v, fi.fingerprint)
                         <=> StoredBits(cf.fingerprint_vec, v) = fi.raw
               /\ CuckooFilter_contains(cf, x) = "true" =>
                     \E y \in cf_items : get_fingerprint_and_indexes(cf, y).raw = fi.raw

\* a slot that does not start on a byte holds a two-byte fingerprint, and a
\* fingerprint with the same low byte is queried and not found
C36_SameLowByteNoMatch ==
    /\ cf_last.outcome = "ok"
    /\ fingerprint_bit_count(cf) = 12
    /\ StoredBits(cf.fingerprint_vec, 1) = 291
    /\ \E x \in WideItems :
          /\ get_fingerprint_and_indexes(cf, x).raw = 35
          /\ CuckooFilter_contains(cf, x) = "false"

\* C37: every call of insert, contains and remove returns or panics after
\* finitely many slot visits: no call goes round the slots for ever.
C37_EveryOperationTerminates == qf_last.outcome # "hang"

(***************************************************************************)
(* QuotientFilter::with_hasher (src/src/quotient.rs) and the slot values   *)
(* insert builds, on the u64 model of BitstringVec.                        *)
(***************************************************************************)
\* qn  the arguments of with_hasher (quotient_bits, remainder_bits), the build,
\*     the last call (op) and its outcome, the slot vector constructed
\*     (slot_vec), and of the last store the slot index, the remainder and the
\*     metadata bits given and the slot value read back
QNQuotientBits == {0, 1, 2, 3}
QNRemainderBits == {0, 1, 2, 60, 61, 62, 63}
MaxQNIndex == 1

\* the three asserts of with_hasher
with_hasher_asserts(quotient_bits, remainder_bits) ==
    /\ quotient_bits > 0
    /\ remainder_bits > 0
    /\ quotient_bits + remainder_bits <= 64

\* slot_vec of with_hasher
with_hasher_slot_vec(quotient_bits, remainder_bits) ==
    LET slot_bits == remainder_bits + METADATA_BITS
        slot_vec_len == slot_bits * Pow2(quotient_bits)
    IN bsv_new(slot_bits, slot_vec_len)

\* (remainder << METADATA_BITS) | metadata, as insert builds a slot
slot_value(remainder, metadata) == Shl64(remainder, METADATA_BITS) \cup metadata

\* slot >> METADATA_BITS, as contains reads the remainder of a slot
slot_remainder_u64(slot) == Shr64(slot, METADATA_BITS)

\* remainders of remainder_bits bits: zero, the lowest bit, the highest bit,
\* all bits
QNRemainders(remainder_bits) ==
    {{}, {0}, {remainder_bits - 1}, 0 .. remainder_bits - 1}

\* is_occupied alone; is_occupied, is_continuation and is_shifted
QNMetadata == {{2}, {0, 1, 2}}

InitQN ==
    /\ qn \in [quotient_bits : QNQuotientBits, remainder_bits : QNRemainderBits,
               build : Builds, op : {"args"}, outcome : {"ok"},
               slot_vec : {Absent}, index : {0}, remainder : {{}},
               metadata : {{}}, read : {{}}]
    /\ qf = Absent /\ qf_items = Absent /\ qf_last = Absent
    /\ cf = Absent /\ cf_items = Absent /\ cf_last = Absent
    /\ bv = Absent /\ bv_last = Absent
    /\ sv = Absent /\ sv_last = Absent
    /\ hi = Absent
    /\ scf = Absent /\ scf_last = Absent
    /\ sbf = Absent /\ sbf_last = Absent
    /\ by = Absent
    /\ bf = Absent /\ bf_items = Absent /\ bf_last = Absent
    /\ dd = Absent /\ dd_last = Absent
    /\ cms = Absent /\ cms_sums = Absent /\ cms_last = Absent
    /\ hl = Absent /\ hl_last = Absent

QNWithHasher ==
    /\ qn.op = "args"
    /\ qn' = IF with_hasher_asserts(qn.quotient_bits, qn.remainder_bits)
             THEN [qn EXCEPT !.op = "with_hasher",
                             !.slot_vec = with_hasher_slot_vec(qn.quotient_bits,
                                                               qn.remainder_bits)]
             ELSE [qn EXCEPT !.op = "with_hasher", !.outcome = "panic"]
    /\ UNCHANGED <<qf_vars, cf_vars, bv_vars, sv_vars, hi_vars, scf_vars, sbf_vars, by_vars, bf_vars, dd_vars, cms_vars, hl_vars>>

\* slot_vec.set(index, (remainder << METADATA_BITS) | metadata) followed by
\* slot_vec.get(index); with overflow checks get_mask panics on a width over 64
QNStore(index, remainder, metadata) ==
    /\ qn.op = "with_hasher"
    /\ qn.outcome = "ok"
    /\ IF qn.build = "debug" /\ qn.slot_vec.bit_count > U64_BIT_COUNT
       THEN qn' = [qn EXCEPT !.op = "store", !.outcome = "panic", !.index = index,
                             !.remainder = remainder, !.metadata = metadata]
       ELSE LET r == bsv_set(qn.slot_vec, index, slot_value(remainder, metadata),
                             qn.build)
            IN qn' = [qn EXCEPT !.op = "store", !.outcome = r.outcome,
                                !.slot_vec = r.vec, !.index = index,
                                !.remainder = remainder, !.metadata = metadata,
                                !.read = IF r.outcome = "ok"
                                         THEN bsv_get(r.vec, index) ELSE {}]
    /\ UNCHANGED <<qf_vars, cf_vars, bv_vars, sv_vars, hi_vars, scf_vars, sbf_vars, by_vars, bf_vars, dd_vars, cms_vars, hl_vars>>

NextQN ==
    \/ QNWithHasher
    \/ \E index \in 0 .. MaxQNIndex : \E remainder \in QNRemainders(qn.remainder_bits) :
          \E metadata \in QNMetadata : QNStore(index, remainder, metadata)

SpecQN == InitQN /\ [][NextQN]_vars

\* C38: for every pair (q, r) with_hasher accepts the slot width r + 3 is in
\* 1..=64, and a slot value (remainder << 3) | metadata stored in a slot is read
\* back with its remainder and its metadata, without a panic.
C38_SlotWidthFitsAndRoundTrips ==
    /\ (qn.op # "args" /\ with_hasher_asserts(qn.quotient_bits, qn.remainder_bits)) =>
           qn.slot_vec.bit_count \in 1 .. U64_BIT_COUNT
    /\ qn.op = "store" =>
           /\ qn.outcome = "ok"
           /\ slot_remainder_u64(qn.read) = qn.remainder
           /\ qn.read \cap (0 .. METADATA_BITS - 1) = qn.metadata

\* C39: with_hasher(q, r) allocates a slot vector of exactly 2^q slots, each
\* r + 3 bits wide.
C39_SlotVecHasCapacitySlots ==
    (qn.op # "args" /\ with_hasher_asserts(qn.quotient_bits, qn.remainder_bits)) =>
        /\ qn.slot_vec.len = Pow2(qn.quotient_bits)
        /\ qn.slot_vec.bit_count = qn.remainder_bits + METADATA_BITS

=============================================================================
